---- MODULE Spec2Model ----
(***************************************************************************)
(* A model of the Landmarks tokenizer (typescript/src/landmarks-parser.ts) *)
(* with the data-driven Policy class of landmarks-policy.ts.               *)
(*                                                                         *)
(* A document is a sequence of one-character strings.  Source positions    *)
(* are 0-based as in the code: the character at position p is doc[p + 1].  *)
(* One step of the model is one iteration of the main loop of parse(), or  *)
(* the code after the loop (final Text, autoclose tail, EOF).              *)
(***************************************************************************)
EXTENDS Integers, Sequences, FiniteSets, TLC

\* The longest documents: MaxPieces pieces (markup family), MaxChars characters
\* (character family), MaxAttributeChars characters after the tag name
\* (attribute family).
MaxPieces == 3
MaxChars == 4
MaxAttributeChars == 4

\* npos (landmarks-parser-types.ts: Number.MAX_SAFE_INTEGER): a position
\* larger than every document length.  The code never adds to npos.
NPOS == 1000000

\* "undefined": what text[p] yields outside the string, and choose()'s null
Undefined == "undefined"
null == <<>>

----------------------------------------------------------------------------
\* LandmarksParserConstants()

spaces == {" ", "\t", "\n", "\f", "\r"}
attribute_spaces == spaces \cup {"/"}
\* A faulty set in which the slash does not end a name
attribute_name_end_without_slash == spaces \cup {">", "="}
attribute_name_end == attribute_spaces \cup {">", "="}
attribute_value_end == spaces \cup {">"}
element_name_end == attribute_spaces \cup {">"}

open == <<"<">>
open_end_tag == <<"<", "/">>
open_comment == <<"<", "!", "-", "-">>
open_cdata == <<"<", "!", "[", "C", "D", "A", "T", "A", "[">>
open_declaration == <<"<", "!">>
open_processing == <<"<", "?">>

close == <<">">>
close_self == <<"/", ">">>
close_comment == <<"-", "-", ">">>
close_cdata == <<"]", "]", ">">>
close_declaration == <<">">>
close_processing == <<"?", ">">>

\* A faulty order that tries the declaration before the comment and the CDATA section
open_choices_declaration_first ==
    <<open_end_tag, open_declaration, open_comment, open_cdata, open_processing, open>>

\* Order is important
open_choices ==
    <<open_end_tag, open_comment, open_cdata, open_declaration, open_processing, open>>

close_choices == <<close_self, close>>

----------------------------------------------------------------------------
\* String helpers of landmarks-parser.ts

\* text[p]
charAt(text, p) == IF p >= 0 /\ p < Len(text) THEN text[p + 1] ELSE Undefined

\* text.substring(p, p + Len(term)) === term
startsWithAt(text, term, p) ==
    /\ p >= 0
    /\ p + Len(term) <= Len(text)
    /\ \A i \in 1..Len(term) : text[p + i] = term[i]

\* text.substr(p, n): n characters from p, clipped to the text; "" when n <= 0
substr(text, p, n) ==
    LET last == IF p + n > Len(text) THEN Len(text) ELSE p + n
    IN  IF n <= 0 \/ p >= Len(text) THEN <<>>
        ELSE [i \in 1..(last - p) |-> text[p + i]]

Min(S) == CHOOSE x \in S : \A y \in S : x <= y

find(text, term, position) ==
    LET hits == {i \in position..(Len(text) - Len(term)) : startsWithAt(text, term, i)}
    IN  IF hits = {} THEN NPOS ELSE Min(hits)

findFirstOf(text, characters, position) ==
    LET hits == {i \in position..(Len(text) - 1) : text[i + 1] \in characters}
    IN  IF hits = {} THEN NPOS ELSE Min(hits)

findFirstNotOf(text, characters, position) ==
    LET hits == {i \in position..(Len(text) - 1) : text[i + 1] \notin characters}
    IN  IF hits = {} THEN NPOS ELSE Min(hits)

RECURSIVE chooseFrom(_, _, _, _)
chooseFrom(text, position, choices, k) ==
    IF k > Len(choices) THEN null
    ELSE IF Len(choices[k]) <= Len(text) - position
            /\ startsWithAt(text, choices[k], position)
         THEN choices[k]
         ELSE chooseFrom(text, position, choices, k + 1)

choose(text, position, choices) == chooseFrom(text, position, choices, 1)

\* A faulty findEnd that lands one past the end of the term
findEndPastTerm(doc, term, position) ==
    LET found == find(doc, term, position)
    IN  IF found # NPOS THEN found + Len(term) + 1 ELSE found

findEnd(doc, term, position) ==
    LET found == find(doc, term, position)
    IN  IF found # NPOS THEN found + Len(term) ELSE found

skipSpaces(doc, position) == findFirstNotOf(doc, spaces, position)

----------------------------------------------------------------------------
\* landmarks-parser-types.ts

UnknownTagID == <<"(unknown)">>

\* EndTagState, SelfClosingPolicy, SelfClosingMarker
unmatched == "unmatched"
matched == "matched"
autoclosedByParent == "autoclosedByParent"
autoclosedBySibling == "autoclosedBySibling"
autoclosedByAncestor == "autoclosedByAncestor"

allowed == "allowed"
prohibited == "prohibited"
required == "required"

absent == "absent"
present == "present"

\* A faulty test that looks at the marker only
isSelfClosingByMarker(marker, policy) == marker = present

isSelfClosing(marker, policy) ==
    policy = required \/ (policy = allowed /\ marker = present)

isAutoclosed(state) ==
    state \in {autoclosedByParent, autoclosedBySibling, autoclosedByAncestor}

\* A constructed LandmarksRange
Range(s, e) == [start |-> s, end |-> e]

\* The condition on which the LandmarksRange constructor throws
\* A constructor that checks only the sign of start
RangeThrowsOnNegative(s, e) == s < 0

RangeThrows(s, e) == (s < 0) \/ (e < s)

isComplete(r) == r.end # NPOS
isEmpty(r) == (r.start = NPOS) \/ (r.start = r.end)

invalid == Range(NPOS, NPOS)

\* LandmarksRange.getText(document): document.substring(start, end)
getText(doc, r) ==
    LET last == IF r.end > Len(doc) THEN Len(doc) ELSE r.end
    IN  IF r.start = NPOS \/ r.start >= last THEN <<>>
        ELSE [i \in 1..(last - r.start) |-> doc[r.start + i]]

\* new LandmarksAttribute(startName, endName)
LandmarksAttribute(startName, endName) ==
    [name |-> Range(startName, endName),
     all |-> Range(startName, endName),
     value |-> Range(endName, endName)]

----------------------------------------------------------------------------
\* What one step of the parser does, in order: it constructs ranges ("new")
\* and calls handler methods (every other kind).  All records have the same
\* fields; the fields that a kind does not carry hold their defaults.

Effect(kind, all, name, value, tagID, state, scPolicy, scMarker, openIds) ==
    [kind |-> kind, all |-> all, name |-> name, value |-> value, tagID |-> tagID,
     state |-> state, selfClosingPolicy |-> scPolicy, selfClosingMarker |-> scMarker,
     elements |-> openIds]

\* new LandmarksRange(s, e)
New(s, e) ==
    Effect("new", Range(s, e), invalid, invalid, UnknownTagID, unmatched, allowed, absent, <<>>)

\* handler.Text / Comment / CData / Processing / Declaration (document, range)
RangeEvent(kind, s, e) ==
    Effect(kind, Range(s, e), invalid, invalid, UnknownTagID, unmatched, allowed, absent, <<>>)

\* handler.StartTagPrefix / StartTag (document, tag)
StartTagEvent(kind, tag) ==
    Effect(kind, tag.all, tag.name, invalid, tag.tagID, unmatched,
           tag.selfClosingPolicy, tag.selfClosingMarker, <<>>)

\* handler.EndTagPrefix / EndTag (document, endTag)
EndTagEvent(kind, tag) ==
    Effect(kind, tag.all, tag.name, invalid, tag.tagID, tag.state, allowed, absent, <<>>)

\* handler.StartTagAttribute / EndTagAttribute (document, attr)
AttributeEvent(kind, attr) ==
    Effect(kind, attr.all, attr.name, attr.value, UnknownTagID, unmatched, allowed, absent, <<>>)

\* handler.EOF(document, elements)
EOFEvent(openIds) ==
    Effect("EOF", invalid, invalid, invalid, UnknownTagID, unmatched, allowed, absent, openIds)

\* new LandmarksStartTag() / new LandmarksEndTag(): all fields at their defaults
LandmarksStartTag ==
    [all |-> invalid, name |-> invalid, tagID |-> UnknownTagID,
     selfClosingPolicy |-> allowed, selfClosingMarker |-> absent]

LandmarksEndTag ==
    [all |-> invalid, name |-> invalid, tagID |-> UnknownTagID, state |-> unmatched]

----------------------------------------------------------------------------
\* class Policy of landmarks-policy.ts, driven by a LandmarksPolicyData record

Digits == {"0", "1", "2", "3", "4", "5", "6", "7", "8", "9"}
UpperCase == <<"A", "B", "C", "D", "E", "F", "G", "H", "I", "J", "K", "L", "M",
               "N", "O", "P", "Q", "R", "S", "T", "U", "V", "W", "X", "Y", "Z">>
LowerCase == <<"a", "b", "c", "d", "e", "f", "g", "h", "i", "j", "k", "l", "m",
               "n", "o", "p", "q", "r", "s", "t", "u", "v", "w", "x", "y", "z">>
Range1(f) == {f[i] : i \in DOMAIN f}

\* The characters whose code is in 0..9 or in A..z: the second interval also
\* holds the characters between Z and a (the grave accent, which no document
\* of the model contains, is left out).
NameStartChars ==
    Digits \cup Range1(UpperCase) \cup {"[", "\\", "]", "^", "_"} \cup Range1(LowerCase)

getElementNameStart(text, pos) ==
    IF pos < Len(text) /\ text[pos + 1] \in NameStartChars THEN pos ELSE NPOS

toLowerCase(name) ==
    [i \in 1..Len(name) |->
        IF \E k \in 1..26 : UpperCase[k] = name[i]
        THEN LowerCase[CHOOSE k \in 1..26 : UpperCase[k] = name[i]]
        ELSE name[i]]

getTagID(name) == toLowerCase(name)

\* A faulty comparison that takes every two ids for the same element
isSameAlways(lhs, rhs) == lhs = lhs

isSameElement(lhs, rhs) == lhs = rhs

\* A faulty test that reads the list of content elements
isVoidFromContent(pol, tagID) == tagID \in pol.ContentElements

isVoidElement(pol, tagID) == tagID \in pol.VoidElements
isContentElement(pol, tagID) == tagID \in pol.ContentElements
isOpaqueElement(pol, tagID) == tagID \in pol.OpaqueElements
isAutoclosingSibling(pol, tagID, siblingID) == <<tagID, siblingID>> \in pol.AutocloseBySibling
isAutocloseByParent(pol, tagID) == tagID \in pol.AutocloseByParent
\* A faulty test that reads the list of autoclosing end tags
isWildcardFromLandmarks(pol, tagID) == tagID \in pol.AutoclosingEndTags

isWildcardEndTag(pol, tagID) == tagID \in pol.WildcardEndTags
isAutoclosingEndTag(pol, tagID) == tagID \in pol.AutoclosingEndTags

----------------------------------------------------------------------------
\* parseAttributes(position, callback).  The result is the returned position,
\* the effects in order, and "hung": an iteration of the while loop that
\* continues without moving search_position forward would repeat for ever.

\* A faulty callback that reports every attribute as an attribute of a start tag
CallbackOfStartTag(kind, attr) ==
    IF attr = <<>> THEN <<>> ELSE <<AttributeEvent("StartTagAttribute", attr[1])>>

Callback(kind, attr) ==
    IF attr = <<>> THEN <<>> ELSE <<AttributeEvent(kind, attr[1])>>

\* A faulty exit that forgets the attribute that is still pending
attributesExitDrops(kind, sp, attr, out) ==
    [pos |-> sp, effects |-> out, hung |-> FALSE]

attributesExit(kind, sp, attr, out) ==
    [pos |-> sp, effects |-> out \o Callback(kind, attr), hung |-> FALSE]

RECURSIVE attributesLoop(_, _, _, _, _)
attributesNext(doc, kind, from, sp, attr, out) ==
    IF sp < Len(doc) /\ sp <= from
    THEN [pos |-> sp, effects |-> out, hung |-> TRUE]
    ELSE attributesLoop(doc, kind, sp, attr, out)

\* A faulty value that starts a quoted value on its opening quote
attributeValueWithQuote(doc, kind, from, name_start, sp, attr, out) ==
    LET s == charAt(doc, sp)
        quoted == s \in {"\"", "'"}
        value_end == IF quoted
                     THEN find(doc, <<s>>, IF sp + 1 >= Len(doc) THEN NPOS ELSE sp + 1)
                     ELSE findFirstOf(doc, attribute_value_end, sp)
        sp1 == IF quoted /\ value_end # NPOS THEN value_end + 1 ELSE value_end
        found_end_tag == ~quoted /\ value_end # NPOS /\ charAt(doc, value_end) = ">"
        attr1 == [attr EXCEPT !.value = Range(sp, value_end),
                              !.all = Range(name_start, sp1)]
        out1 == out \o <<New(sp, value_end), New(name_start, sp1)>>
    IN  IF found_end_tag
        THEN attributesExit(kind, sp1, <<attr1>>, out1)
        ELSE attributesNext(doc, kind, from, sp1, <<attr1>>, out1)

\* A faulty value that takes the '>' that ends an unquoted value with it
attributeValuePastClose(doc, kind, from, name_start, sp, attr, out) ==
    LET s == charAt(doc, sp)
        quoted == s \in {"\"", "'"}
        value_start == IF quoted
                       THEN (IF sp + 1 >= Len(doc) THEN NPOS ELSE sp + 1)
                       ELSE sp
        value_end == IF quoted
                     THEN find(doc, <<s>>, value_start)
                     ELSE findFirstOf(doc, attribute_value_end, sp)
        sp1 == IF value_end # NPOS /\ (quoted \/ charAt(doc, value_end) = ">")
               THEN value_end + 1 ELSE value_end
        found_end_tag == ~quoted /\ value_end # NPOS /\ charAt(doc, value_end) = ">"
        all_end == IF quoted /\ value_end # NPOS THEN value_end + 1 ELSE value_end
        attr1 == [attr EXCEPT !.value = Range(value_start, value_end),
                              !.all = Range(name_start, all_end)]
        out1 == out \o <<New(value_start, value_end), New(name_start, all_end)>>
    IN  IF found_end_tag
        THEN attributesExit(kind, sp1, <<attr1>>, out1)
        ELSE attributesNext(doc, kind, from, sp1, <<attr1>>, out1)

attributeValue(doc, kind, from, name_start, sp, attr, out) ==
    LET s == charAt(doc, sp)
        quoted == s \in {"\"", "'"}
        value_start == IF quoted
                       THEN (IF sp + 1 >= Len(doc) THEN NPOS ELSE sp + 1)
                       ELSE sp
        value_end == IF quoted
                     THEN find(doc, <<s>>, value_start)
                     ELSE findFirstOf(doc, attribute_value_end, sp)
        sp1 == IF quoted /\ value_end # NPOS THEN value_end + 1 ELSE value_end
        found_end_tag == ~quoted /\ value_end # NPOS /\ charAt(doc, value_end) = ">"
        attr1 == [attr EXCEPT !.value = Range(value_start, value_end),
                              !.all = Range(name_start, sp1)]
        out1 == out \o <<New(value_start, value_end), New(name_start, sp1)>>
    IN  IF found_end_tag
        THEN attributesExit(kind, sp1, <<attr1>>, out1)
        ELSE attributesNext(doc, kind, from, sp1, <<attr1>>, out1)

attributeName(doc, kind, from, name_start, out) ==
    LET name_end == findFirstOf(doc, attribute_name_end, name_start + 1)
        attr == LandmarksAttribute(name_start, name_end)
        out1 == out \o <<New(name_start, name_end), New(name_end, name_end)>>
        sp2 == skipSpaces(doc, name_end)
        sp3 == skipSpaces(doc, sp2 + 1)
    IN  IF name_end = NPOS THEN attributesExit(kind, name_end, <<attr>>, out1)
        ELSE IF choose(doc, name_end, close_choices) # null
             THEN attributesExit(kind, name_end, <<attr>>, out1)
        ELSE IF sp2 = NPOS THEN attributesExit(kind, sp2, <<attr>>, out1)
        ELSE IF charAt(doc, sp2) # "="
             THEN attributesNext(doc, kind, from, sp2, <<attr>>, out1)
        ELSE IF sp3 = NPOS THEN attributesExit(kind, sp3, <<attr>>, out1)
        ELSE attributeValue(doc, kind, from, name_start, sp3, attr, out1)

\* A faulty loop that does not back up to the slash of the self-closing token
attributesLoopNoBackup(doc, kind, sp, attr, out) ==
    IF ~(sp < Len(doc)) THEN attributesExit(kind, sp, attr, out)
    ELSE
      LET out1 == out \o Callback(kind, attr)
          sp1 == findFirstNotOf(doc, attribute_spaces, sp)
          choice == choose(doc, sp1, close_choices)
      IN  IF sp1 = NPOS THEN attributesExit(kind, sp1, <<>>, out1)
          ELSE IF choice # null THEN attributesExit(kind, sp1, <<>>, out1)
          ELSE attributeName(doc, kind, sp, sp1, out1)

attributesLoop(doc, kind, sp, attr, out) ==
    IF ~(sp < Len(doc)) THEN attributesExit(kind, sp, attr, out)
    ELSE
      LET out1 == out \o Callback(kind, attr)
          sp1 == findFirstNotOf(doc, attribute_spaces, sp)
          choice == choose(doc, sp1, close_choices)
          sp2 == IF choice = close /\ charAt(doc, sp1 - 1) = "/" THEN sp1 - 1 ELSE sp1
      IN  IF sp1 = NPOS THEN attributesExit(kind, sp1, <<>>, out1)
          ELSE IF choice # null THEN attributesExit(kind, sp2, <<>>, out1)
          ELSE attributeName(doc, kind, sp, sp1, out1)

parseAttributes(doc, kind, position) == attributesLoop(doc, kind, position, <<>>, <<>>)

----------------------------------------------------------------------------
\* parse(): the pieces of one iteration of the main loop.  Each piece yields
\* the effects in order, the new start_position (the anchor), the new
\* search_position, the new stack, and whether an inner loop hung.

Result(effects, start, search, elems, hung) ==
    [effects |-> effects, start |-> start, search |-> search,
     elements |-> elems, hung |-> hung]

back(elems) == elems[Len(elems)]
pop(elems) == SubSeq(elems, 1, Len(elems) - 1)

\* if (search_position != start_position) handler.Text(...)
\* A Text event before every token, also when nothing lies before it
textBeforeAlways(start, p) ==
    <<New(start, p), RangeEvent("Text", start, p)>>

textBefore(start, p) ==
    IF p # start THEN <<New(start, p), RangeEvent("Text", start, p)>> ELSE <<>>

\* A faulty synthesized end tag that spans the '<' of the tag that triggers it
synthesizedOverOpener(at, tagID, state) ==
    LET endTag == [LandmarksEndTag EXCEPT !.all = Range(at, at + 1), !.name = Range(at, at),
                                          !.tagID = tagID, !.state = state]
    IN  <<New(NPOS, NPOS), New(NPOS, NPOS), New(at, at + 1),
          EndTagEvent("EndTagPrefix", endTag), EndTagEvent("EndTag", endTag)>>

\* One synthesized end tag: EndTagPrefix and EndTag of the same, empty tag
synthesized(at, tagID, state) ==
    LET endTag == [LandmarksEndTag EXCEPT !.all = Range(at, at), !.name = Range(at, at),
                                          !.tagID = tagID, !.state = state]
    IN  <<New(NPOS, NPOS), New(NPOS, NPOS), New(at, at),
          EndTagEvent("EndTagPrefix", endTag), EndTagEvent("EndTag", endTag)>>

\* A faulty sweep that reports the end tag of the innermost closed element only
closeInnermostOnly(elems, count, at, state) ==
    IF count = 0 THEN <<>> ELSE synthesized(at, back(elems), state)

\* A faulty sweep that reports the outermost closed element first
RECURSIVE closeOutermostFirst(_, _, _, _)
closeOutermostFirst(elems, count, at, state) ==
    IF count = 0 THEN <<>>
    ELSE closeOutermostFirst(pop(elems), count - 1, at, state) \o synthesized(at, back(elems), state)

\* Close the count topmost elements, the top first
RECURSIVE closeElements(_, _, _, _)
closeElements(elems, count, at, state) ==
    IF count = 0 THEN <<>>
    ELSE synthesized(at, back(elems), state) \o closeElements(pop(elems), count - 1, at, state)

\* A faulty sibling search that takes the outermost open element that the
\* start tag autocloses
siblingIndexOutermost(pol, elems, tagID, index) ==
    LET found == {k \in 1..index : isAutoclosingSibling(pol, elems[k], tagID)}
    IN  IF found = {} THEN 0 ELSE Min(found)

\* The for loop of the sibling sweep: the index (1-based from the bottom) of
\* the topmost open element that the start tag autocloses, 0 if there is none
RECURSIVE siblingIndex(_, _, _, _)
siblingIndex(pol, elems, tagID, index) ==
    IF index = 0 THEN 0
    ELSE IF isAutoclosingSibling(pol, elems[index], tagID) THEN index
    ELSE siblingIndex(pol, elems, tagID, index - 1)

\* The opaque scan: while (search_position !== npos) { ... }
\* A faulty scan that does not back up to the start of the end tag it found
opaqueScanNoRewind(doc, tagID, sp) ==
    LET at == {p \in sp..(Len(doc) - 1) :
                  /\ startsWithAt(doc, open_end_tag, p)
                  /\ p + Len(open_end_tag) < Len(doc)
                  /\ LET from == p + Len(open_end_tag)
                         to == findFirstOf(doc, element_name_end, from)
                     IN  isSameElement(tagID, getTagID(substr(doc, from, to - from)))}
    IN  IF sp = NPOS \/ at = {} THEN [pos |-> NPOS, hung |-> FALSE]
        ELSE [pos |-> Min(at) + Len(open_end_tag), hung |-> FALSE]

\* A faulty scan that stops at the first end tag, whatever its name
opaqueScanAnyEndTag(doc, tagID, sp) ==
    LET sp1 == findEnd(doc, open_end_tag, sp)
    IN  IF sp1 < Len(doc) THEN [pos |-> sp1 - Len(open_end_tag), hung |-> FALSE]
        ELSE [pos |-> NPOS, hung |-> FALSE]

RECURSIVE opaqueScan(_, _, _)
opaqueScan(doc, tagID, sp) ==
    IF sp = NPOS THEN [pos |-> sp, hung |-> FALSE]
    ELSE
      LET sp1 == findEnd(doc, open_end_tag, sp)
          start_name_o == getElementNameStart(doc, sp1)
          start_name == IF start_name_o # NPOS THEN start_name_o ELSE sp1
          end_name == findFirstOf(doc, element_name_end, start_name)
          pos == IF start_name > Len(doc) THEN Len(doc) ELSE start_name
          currentID == getTagID(substr(doc, pos, end_name - pos))
      IN  IF sp1 < Len(doc) /\ isSameElement(tagID, currentID)
          THEN [pos |-> sp1 - Len(open_end_tag), hung |-> FALSE]
          ELSE IF sp1 <= sp THEN [pos |-> sp1, hung |-> TRUE]
          ELSE opaqueScan(doc, tagID, sp1)

\* A faulty truncated start tag that opens an element
truncatedPushes(elems, start, p, start_name) ==
    LET tag == [LandmarksStartTag EXCEPT !.all = Range(p, NPOS),
                                           !.name = Range(start_name, NPOS)]
    IN  [effects |-> textBefore(start, p)
                       \o <<New(NPOS, NPOS), New(NPOS, NPOS), New(p, NPOS), New(start_name, NPOS),
                            StartTagEvent("StartTagPrefix", tag), StartTagEvent("StartTag", tag)>>,
         start |-> NPOS, search |-> NPOS, elements |-> Append(elems, UnknownTagID), hung |-> FALSE]

\* A faulty truncated start tag that resets the anchor but not the search position
truncatedKeepsSearch(elems, start, p, start_name) ==
    LET tag == [LandmarksStartTag EXCEPT !.all = Range(p, NPOS),
                                           !.name = Range(start_name, NPOS)]
    IN  Result(textBefore(start, p)
                 \o <<New(NPOS, NPOS), New(NPOS, NPOS), New(p, NPOS), New(start_name, NPOS),
                      StartTagEvent("StartTagPrefix", tag), StartTagEvent("StartTag", tag)>>,
               NPOS, p, elems, FALSE)

\* if (end_name === npos): the source ends inside the name of a start tag
truncatedStartTag(elems, start, p, start_name) ==
    LET tag == [LandmarksStartTag EXCEPT !.all = Range(p, NPOS),
                                           !.name = Range(start_name, NPOS)]
    IN  Result(textBefore(start, p)
                 \o <<New(NPOS, NPOS), New(NPOS, NPOS), New(p, NPOS), New(start_name, NPOS),
                      StartTagEvent("StartTagPrefix", tag), StartTagEvent("StartTag", tag)>>,
               NPOS, NPOS, elems, FALSE)

\* choice === open, with a valid element name start: a start tag
startTag(doc, pol, elems, start, p) ==
    LET start_name == getElementNameStart(doc, p + Len(open))
        end_name == findFirstOf(doc, element_name_end, start_name)
        tag0 == [LandmarksStartTag EXCEPT !.all = Range(p, end_name),
                                            !.name = Range(start_name, end_name)]
        made == <<New(NPOS, NPOS), New(NPOS, NPOS), New(p, end_name), New(start_name, end_name)>>
        tagID == getTagID(substr(doc, start_name, end_name - start_name))
        tag1 == [tag0 EXCEPT !.tagID = tagID]
        index == siblingIndex(pol, elems, tagID, Len(elems))
        count == IF index = 0 THEN 0 ELSE Len(elems) - (index - 1)
        elems1 == SubSeq(elems, 1, Len(elems) - count)
        sweep == closeElements(elems, count, p, autoclosedBySibling)
        pa == parseAttributes(doc, "StartTagAttribute", end_name)
        scPolicy == IF isVoidElement(pol, tagID) THEN required
                    ELSE IF isContentElement(pol, tagID) THEN prohibited
                    ELSE allowed
        scMarker == IF pa.pos < Len(doc) - 1 /\ charAt(doc, pa.pos) = "/"
                    THEN present ELSE absent
        end == findEnd(doc, close, pa.pos)
        tag2 == [tag1 EXCEPT !.selfClosingPolicy = scPolicy, !.selfClosingMarker = scMarker,
                             !.all = Range(p, end)]
        pushed == ~isSelfClosing(scMarker, scPolicy)
        elems2 == IF pushed THEN Append(elems1, tagID) ELSE elems1
        scan == IF pushed /\ isOpaqueElement(pol, tagID)
                THEN opaqueScan(doc, tagID, end)
                ELSE [pos |-> end, hung |-> FALSE]
        upToAttributes == textBefore(start, p) \o made \o sweep
                            \o <<StartTagEvent("StartTagPrefix", tag1)>> \o pa.effects
    IN  IF end_name = NPOS
        THEN \* We don't normalize the name when the name is incomplete
             truncatedStartTag(elems, start, p, start_name)
        ELSE IF pa.hung THEN Result(upToAttributes, p, pa.pos, elems1, TRUE)
        ELSE Result(upToAttributes \o <<New(p, end), StartTagEvent("StartTag", tag2)>>,
                    end, scan.pos, elems2, scan.hung)

\* choice === open, without a valid element name start: the '<' is text
\* A faulty fold that does not advance the search position
textFoldStuck(doc, pol, elems, start, p) ==
    Result(textBefore(start, p), p, p, elems, FALSE)

\* A faulty fold that moves the anchor past the '<' as well
textFoldSkips(doc, pol, elems, start, p) ==
    Result(textBefore(start, p), p + 1, p + 1, elems, FALSE)

textFold(doc, pol, elems, start, p) ==
    Result(textBefore(start, p), p, p + 1, elems, FALSE)

\* The index of the topmost of the elements 1..index with the id tagID, 0 if none
topmostSame(elems, tagID, index) ==
    LET same == {k \in 1..index : elems[k] = tagID}
    IN  IF same = {} THEN 0 ELSE CHOOSE k \in same : \A m \in same : m <= k

\* A faulty walk that goes past every open element, autoclosing or not
walkThroughAll(pol, elems, tagID, landmark, index) ==
    topmostSame(elems, tagID, index)

\* A faulty walk that goes past autoclose-by-parent elements only, landmark or not
walkParentOnly(pol, elems, tagID, landmark, index) ==
    LET k == topmostSame(elems, tagID, index)
    IN  IF k # 0 /\ \A m \in (k + 1)..index : isAutocloseByParent(pol, elems[m]) THEN k ELSE 0

\* A faulty walk that goes past open elements for a landmark end tag only
walkLandmarkOnly(pol, elems, tagID, landmark, index) ==
    LET k == topmostSame(elems, tagID, index)
    IN  IF k # 0 /\ landmark THEN k ELSE 0

\* The for loop of the end-tag walk: the index of the open element that the
\* end tag closes, 0 if it closes none
RECURSIVE walk(_, _, _, _, _)
walk(pol, elems, tagID, landmark, index) ==
    IF index = 0 THEN 0
    ELSE IF isSameElement(elems[index], tagID) THEN index
    ELSE IF landmark \/ isAutocloseByParent(pol, elems[index])
         THEN walk(pol, elems, tagID, landmark, index - 1)
    ELSE 0

\* while (!policy.isSameElement(back(), tagID)): how many elements it pops
RECURSIVE aboveSame(_, _)
aboveSame(elems, tagID) ==
    IF isSameElement(back(elems), tagID) THEN 0 ELSE 1 + aboveSame(pop(elems), tagID)

\* A faulty end tag that takes the id of a name that the end of the source cuts
endTagNamesTruncated(doc, pol, elems, start, p) ==
    LET start_name_o == getElementNameStart(doc, p + Len(open_end_tag))
        start_name0 == IF start_name_o # NPOS THEN start_name_o ELSE p + Len(open_end_tag)
        start_name == IF start_name0 >= Len(doc) THEN NPOS ELSE start_name0
        end_name == findFirstOf(doc, element_name_end, start_name)
        pos == IF start_name > Len(doc) THEN Len(doc) ELSE start_name
        el_name == substr(doc, pos, end_name - pos)
        tagID0 == getTagID(substr(doc, pos, (IF end_name = NPOS THEN Len(doc) ELSE end_name) - pos))
        tagID == IF Len(elems) > 0 /\ isWildcardEndTag(pol, tagID0) THEN back(elems) ELSE tagID0
        top == Len(elems) > 0 /\ isSameElement(tagID, back(elems))
        landmark == isAutoclosingEndTag(pol, tagID)
        state == IF landmark THEN autoclosedByAncestor ELSE autoclosedByParent
        index == IF Len(elems) > 0 /\ ~top THEN walk(pol, elems, tagID, landmark, Len(elems)) ELSE 0
        count == IF index > 0 THEN aboveSame(elems, tagID) ELSE 0
        sweep == closeElements(elems, count, p, state)
        end_state == IF top \/ index > 0 THEN matched ELSE unmatched
        elems1 == IF top THEN pop(elems)
                  ELSE IF index > 0 THEN SubSeq(elems, 1, Len(elems) - count - 1)
                  ELSE elems
        tag0 == [LandmarksEndTag EXCEPT !.all = Range(p, end_name),
                                          !.name = Range(start_name, end_name),
                                          !.tagID = tagID, !.state = end_state]
        pa == parseAttributes(doc, "EndTagAttribute", end_name)
        end == findEnd(doc, close, pa.pos)
        tag1 == [tag0 EXCEPT !.all = Range(p, end)]
        upToAttributes == textBefore(start, p) \o sweep
                            \o <<New(NPOS, NPOS), New(NPOS, NPOS),
                                 New(p, end_name), New(start_name, end_name),
                                 EndTagEvent("EndTagPrefix", tag0)>>
                            \o pa.effects
    IN  IF pa.hung THEN Result(upToAttributes, p, pa.pos, elems1, TRUE)
        ELSE Result(upToAttributes \o <<New(p, end), EndTagEvent("EndTag", tag1)>>,
                    end, end, elems1, FALSE)

\* choice === open_end_tag
endTag(doc, pol, elems, start, p) ==
    LET start_name_o == getElementNameStart(doc, p + Len(open_end_tag))
        start_name0 == IF start_name_o # NPOS THEN start_name_o ELSE p + Len(open_end_tag)
        start_name == IF start_name0 >= Len(doc) THEN NPOS ELSE start_name0
        end_name == findFirstOf(doc, element_name_end, start_name)
        pos == IF start_name > Len(doc) THEN Len(doc) ELSE start_name
        el_name == substr(doc, pos, end_name - pos)
        tagID0 == IF end_name = NPOS THEN UnknownTagID ELSE getTagID(el_name)
        tagID == IF Len(elems) > 0 /\ isWildcardEndTag(pol, tagID0) THEN back(elems) ELSE tagID0
        top == Len(elems) > 0 /\ isSameElement(tagID, back(elems))
        landmark == isAutoclosingEndTag(pol, tagID)
        state == IF landmark THEN autoclosedByAncestor ELSE autoclosedByParent
        index == IF Len(elems) > 0 /\ ~top THEN walk(pol, elems, tagID, landmark, Len(elems)) ELSE 0
        count == IF index > 0 THEN aboveSame(elems, tagID) ELSE 0
        sweep == closeElements(elems, count, p, state)
        end_state == IF top \/ index > 0 THEN matched ELSE unmatched
        elems1 == IF top THEN pop(elems)
                  ELSE IF index > 0 THEN SubSeq(elems, 1, Len(elems) - count - 1)
                  ELSE elems
        tag0 == [LandmarksEndTag EXCEPT !.all = Range(p, end_name),
                                          !.name = Range(start_name, end_name),
                                          !.tagID = tagID, !.state = end_state]
        pa == parseAttributes(doc, "EndTagAttribute", end_name)
        end == findEnd(doc, close, pa.pos)
        tag1 == [tag0 EXCEPT !.all = Range(p, end)]
        upToAttributes == textBefore(start, p) \o sweep
                            \o <<New(NPOS, NPOS), New(NPOS, NPOS),
                                 New(p, end_name), New(start_name, end_name),
                                 EndTagEvent("EndTagPrefix", tag0)>>
                            \o pa.effects
    IN  IF pa.hung THEN Result(upToAttributes, p, pa.pos, elems1, TRUE)
        ELSE Result(upToAttributes \o <<New(p, end), EndTagEvent("EndTag", tag1)>>,
                    end, end, elems1, FALSE)

\* A faulty branch that searches the closer after the opener
delimitedAfterOpener(doc, elems, start, p, kind, closer) ==
    LET end == findEnd(doc, closer, p + Len(choose(doc, p, open_choices)))
    IN  Result(textBefore(start, p) \o <<New(p, end), RangeEvent(kind, p, end)>>,
               end, end, elems, FALSE)

\* A faulty branch that goes on after the opener when the closer is missing
delimitedGoesOn(doc, elems, start, p, kind, closer) ==
    LET end == findEnd(doc, closer, p)
        next == IF end = NPOS THEN p + Len(open_processing) ELSE end
    IN  Result(textBefore(start, p) \o <<New(p, end), RangeEvent(kind, p, end)>>,
               next, next, elems, FALSE)

\* choice === open_comment, open_cdata, open_processing, open_declaration:
\* the closer is searched from the start of the token
delimited(doc, elems, start, p, kind, closer) ==
    LET end == findEnd(doc, closer, p)
    IN  Result(textBefore(start, p) \o <<New(p, end), RangeEvent(kind, p, end)>>,
               end, end, elems, FALSE)

\* The code after the main loop, entered with search position sp
\* A faulty end of parse that calls EOF before it closes the tail of the stack
afterLoopEOFFirst(pol, elems, start, sp) ==
    LET text == IF sp # start THEN <<New(start, sp), RangeEvent("Text", start, sp)>> ELSE <<>>
        tail[n \in 0..Len(elems)] ==
            IF n = 0 \/ ~isAutocloseByParent(pol, elems[n]) THEN 0 ELSE 1 + tail[n - 1]
        count == tail[Len(elems)]
        elems1 == SubSeq(elems, 1, Len(elems) - count)
    IN  Result(text \o <<EOFEvent(elems1)>> \o closeElements(elems, count, sp, autoclosedByParent),
               start, sp, elems1, FALSE)

\* A faulty end of parse that closes the top element only
afterLoopClosesOne(pol, elems, start, sp) ==
    LET text == IF sp # start THEN <<New(start, sp), RangeEvent("Text", start, sp)>> ELSE <<>>
        count == IF elems # <<>> /\ isAutocloseByParent(pol, back(elems)) THEN 1 ELSE 0
        elems1 == SubSeq(elems, 1, Len(elems) - count)
    IN  Result(text \o closeElements(elems, count, sp, autoclosedByParent) \o <<EOFEvent(elems1)>>,
               start, sp, elems1, FALSE)

\* A faulty end of parse that closes no element
afterLoopNoTail(pol, elems, start, sp) ==
    LET text == IF sp # start THEN <<New(start, sp), RangeEvent("Text", start, sp)>> ELSE <<>>
    IN  Result(text \o <<EOFEvent(elems)>>, start, sp, elems, FALSE)

afterLoop(pol, elems, start, sp) ==
    LET text == IF sp # start THEN <<New(start, sp), RangeEvent("Text", start, sp)>> ELSE <<>>
        tail[n \in 0..Len(elems)] ==
            \* the length of the run of autoclose-by-parent elements ending at n
            IF n = 0 \/ ~isAutocloseByParent(pol, elems[n]) THEN 0 ELSE 1 + tail[n - 1]
        count == tail[Len(elems)]
        elems1 == SubSeq(elems, 1, Len(elems) - count)
    IN  Result(text \o closeElements(elems, count, sp, autoclosedByParent) \o <<EOFEvent(elems1)>>,
               start, sp, elems1, FALSE)

----------------------------------------------------------------------------
\* The inputs: documents and policies

ida == <<"a">>
idb == <<"b">>

PolicyData(void, content, opaque, landmarks, byParent, bySibling, wildcards) ==
    [VoidElements |-> void, ContentElements |-> content, OpaqueElements |-> opaque,
     AutoclosingEndTags |-> landmarks, AutocloseByParent |-> byParent,
     AutocloseBySibling |-> bySibling, WildcardEndTags |-> wildcards]

\* no rules at all (XML-like, but for the case folding of class Policy)
PlainPolicy == PolicyData({}, {}, {}, {}, {}, {}, {})
\* HTML-like: a is opaque (script), b autocloses like li
HtmlPolicy == PolicyData({}, {}, {ida}, {}, {idb}, {<<idb, idb>>}, {})
\* a is a landmark end tag, the empty name is a wildcard end tag
LandmarkPolicy == PolicyData({}, {}, {}, {ida}, {}, {}, {<<>>})
\* b is void (br) and is listed as a content element too, a is a content element
VoidPolicy == PolicyData({idb}, {ida, idb}, {}, {}, {}, {}, {})
\* everything autocloses by parent, b closes an open a, b is a landmark
AutoclosePolicy == PolicyData({}, {}, {}, {idb}, {ida, idb}, {<<ida, idb>>}, {})
\* b is opaque and autocloses by parent, a is a wildcard end tag
OpaquePolicy == PolicyData({}, {}, {idb}, {}, {idb}, {}, {ida})

\* only b autocloses by parent
ParentPolicy == PolicyData({}, {}, {}, {}, {idb}, {}, {})

Policies ==
    {PlainPolicy, HtmlPolicy, LandmarkPolicy, VoidPolicy, AutoclosePolicy, OpaquePolicy,
     ParentPolicy}

SeqsUpTo(S, n) == UNION {[1..k -> S] : k \in 0..n}

RECURSIVE Flatten(_)
Flatten(ss) == IF ss = <<>> THEN <<>> ELSE Head(ss) \o Flatten(Tail(ss))

\* The markup family: documents made of whole tokens
Pieces ==
    {<<"<", "a", ">">>, <<"<", "b", ">">>, <<"<", "/", "a", ">">>, <<"<", "/", "B", ">">>,
     <<"<", "b", "/", ">">>, <<"<", "/", "a">>, <<"<", "/", ">">>, <<"<", "a">>,
     <<"x">>, close,
     open_comment, close_comment, open_cdata, close_cdata, open_processing, close_processing,
     open_declaration}

MarkupDocs == {Flatten(ps) : ps \in SeqsUpTo(Pieces, MaxPieces)}

\* The character family: every short document over the tag characters
Chars == {"<", ">", "/", "a", " ", "=", "\""}

CharDocs == SeqsUpTo(Chars, MaxChars)

\* The attribute family: an open start tag or end tag, and then every short
\* sequence of the characters that the attribute sub-parser tells apart
AttributeChars == {" ", "a", "=", "\"", "'", "/", ">"}

AttributeDocs ==
    {prefix \o body : prefix \in {<<"<", "a", " ">>, <<"<", "/", "a", " ">>,
                                   <<"<", "a", " ", "a", "=">>},
                      body \in SeqsUpTo(AttributeChars, MaxAttributeChars)}

----------------------------------------------------------------------------
VARIABLES
    document,        \* the source string
    policy,          \* the LandmarksPolicyData of the policy
    start_position,  \* the start of the current token (the anchor)
    search_position, \* the point we'll search from
    elements,        \* the stack of open elements
    events,          \* the handler calls made so far, in order
    pc               \* "ready", "loop", "done", "threw" (a range constructor threw), "hung",
                     \* "aborted" (a handler method threw)

vars == <<document, policy, start_position, search_position, elements, events, pc>>

length == Len(document)

\* After new LandmarksParser(policy): parse() has not been called
Init ==
    /\ policy \in Policies
    /\ document = <<>>
    /\ start_position = 0
    /\ search_position = 0
    /\ elements = <<>>
    /\ events = <<>>
    /\ pc = "ready"

\* The index of the first range construction that throws, 0 if none does
firstThrow(effects) ==
    LET bad == {i \in 1..Len(effects) :
                   /\ effects[i].kind = "new"
                   /\ RangeThrows(effects[i].all.start, effects[i].all.end)}
    IN  IF bad = {} THEN 0 ELSE Min(bad)

isHandlerCall(e) == e.kind # "new"

\* The handler calls among the effects, up to the first throw
delivered(effects) ==
    LET t == firstThrow(effects)
    IN  SelectSeq(IF t = 0 THEN effects ELSE SubSeq(effects, 1, t - 1), isHandlerCall)

\* Carry out the result r of a piece of parse()
Apply(r, next) ==
    /\ events' = events \o delivered(r.effects)
    /\ IF firstThrow(r.effects) # 0
       THEN pc' = "threw" /\ UNCHANGED <<start_position, search_position, elements>>
       ELSE /\ pc' = IF r.hung THEN "hung" ELSE next
            /\ start_position' = r.start
            /\ search_position' = r.search
            /\ elements' = r.elements
    /\ UNCHANGED <<document, policy>>

\* The loop is entered: while (search_position < length), and a '<' is found
AtOpener(choice) ==
    /\ pc = "loop"
    /\ search_position < length
    /\ find(document, open, search_position) # NPOS
    /\ choose(document, find(document, open, search_position), open_choices) = choice

nextOpen == find(document, open, search_position)

\* parse(document, handler) is called: the anchor and the search position
\* start at 0 and the stack of open elements is empty
Parse ==
    /\ pc = "ready"
    /\ \/ document' \in MarkupDocs
       \/ policy \in {PlainPolicy, VoidPolicy} /\ document' \in CharDocs
       \/ policy = PlainPolicy /\ document' \in AttributeDocs
    /\ start_position' = 0
    /\ search_position' = 0
    /\ elements' = <<>>
    /\ pc' = "loop"
    /\ UNCHANGED <<policy, events>>

\* The body of the main loop for the '<' found at nextOpen: the branch that
\* the opener there selects
loopBody ==
    LET p == nextOpen
        choice == choose(document, p, open_choices)
    IN  IF choice = open
        THEN IF getElementNameStart(document, p + Len(open)) # NPOS
             THEN startTag(document, policy, elements, start_position, p)
             ELSE textFold(document, policy, elements, start_position, p)
        ELSE IF choice = open_end_tag
        THEN endTag(document, policy, elements, start_position, p)
        ELSE IF choice = open_comment
        THEN delimited(document, elements, start_position, p, "Comment", close_comment)
        ELSE IF choice = open_cdata
        THEN delimited(document, elements, start_position, p, "CData", close_cdata)
        ELSE IF choice = open_processing
        THEN delimited(document, elements, start_position, p, "Processing", close_processing)
        ELSE delimited(document, elements, start_position, p, "Declaration", close_declaration)

\* A start tag that is reported and leaves the stack as it was
StartTagNoPush ==
    /\ AtOpener(open)
    /\ getElementNameStart(document, nextOpen + Len(open)) # NPOS
    /\ findFirstOf(document, element_name_end, nextOpen + Len(open)) # NPOS
    /\ Apply([startTag(document, policy, elements, start_position, nextOpen)
                 EXCEPT !.elements = elements], "loop")

StartTag ==
    /\ AtOpener(open)
    /\ getElementNameStart(document, nextOpen + Len(open)) # NPOS
    /\ findFirstOf(document, element_name_end, nextOpen + Len(open)) # NPOS
    /\ Apply(startTag(document, policy, elements, start_position, nextOpen), "loop")

TruncatedStartTag ==
    /\ AtOpener(open)
    /\ getElementNameStart(document, nextOpen + Len(open)) # NPOS
    /\ findFirstOf(document, element_name_end, nextOpen + Len(open)) = NPOS
    /\ Apply(startTag(document, policy, elements, start_position, nextOpen), "loop")

TextFold ==
    /\ AtOpener(open)
    /\ getElementNameStart(document, nextOpen + Len(open)) = NPOS
    /\ Apply(textFold(document, policy, elements, start_position, nextOpen), "loop")

\* A faulty dispatch that takes '</' for text when no valid name follows
EndTagOrText ==
    /\ AtOpener(open_end_tag)
    /\ IF getElementNameStart(document, nextOpen + Len(open_end_tag)) = NPOS
       THEN Apply(textFold(document, policy, elements, start_position, nextOpen), "loop")
       ELSE Apply(endTag(document, policy, elements, start_position, nextOpen), "loop")

EndTag ==
    /\ AtOpener(open_end_tag)
    /\ Apply(endTag(document, policy, elements, start_position, nextOpen), "loop")

Comment ==
    /\ AtOpener(open_comment)
    /\ Apply(delimited(document, elements, start_position, nextOpen, "Comment", close_comment), "loop")

CData ==
    /\ AtOpener(open_cdata)
    /\ Apply(delimited(document, elements, start_position, nextOpen, "CData", close_cdata), "loop")

Processing ==
    /\ AtOpener(open_processing)
    /\ Apply(delimited(document, elements, start_position, nextOpen, "Processing", close_processing), "loop")

Declaration ==
    /\ AtOpener(open_declaration)
    /\ Apply(delimited(document, elements, start_position, nextOpen, "Declaration", close_declaration), "loop")

\* The loop ends (its condition fails, or no '<' is left: search_position is
\* npos), then the final Text, the autoclose tail and EOF
EndOfParse ==
    /\ pc = "loop"
    /\ search_position >= length \/ nextOpen = NPOS
    /\ Apply(afterLoop(policy, elements, start_position,
                       IF search_position < length THEN nextOpen ELSE search_position), "done")

Next ==
    \/ Parse
    \/ StartTag
    \/ TruncatedStartTag
    \/ TextFold
    \/ EndTag
    \/ Comment
    \/ CData
    \/ Processing
    \/ Declaration
    \/ EndOfParse

Spec == Init /\ [][Next]_vars

----------------------------------------------------------------------------
\* A handler that throws.  parse() has no try, catch or finally: an exception
\* raised by a handler method leaves parse() at the call.  The call that
\* threw is recorded, and after it the mark "throw".

ThrowEvent ==
    Effect("throw", invalid, invalid, invalid, UnknownTagID, unmatched, allowed, absent, <<>>)

\* A faulty parse() that reports the end of input on its way out
ThrowsThenEOF(r) ==
    /\ firstThrow(r.effects) = 0
    /\ \E n \in 1..Len(delivered(r.effects)) :
         events' = events \o SubSeq(delivered(r.effects), 1, n)
                          \o <<ThrowEvent, EOFEvent(elements)>>
    /\ pc' = "aborted"
    /\ UNCHANGED <<document, policy, start_position, search_position, elements>>

\* The n-th handler call of the piece r of parse() throws
Throws(r) ==
    /\ firstThrow(r.effects) = 0
    /\ \E n \in 1..Len(delivered(r.effects)) :
         events' = events \o SubSeq(delivered(r.effects), 1, n) \o <<ThrowEvent>>
    /\ pc' = "aborted"
    /\ UNCHANGED <<document, policy, start_position, search_position, elements>>

StartTagThrows ==
    /\ AtOpener(open)
    /\ getElementNameStart(document, nextOpen + Len(open)) # NPOS
    /\ Throws(startTag(document, policy, elements, start_position, nextOpen))

EndTagThrows ==
    /\ AtOpener(open_end_tag)
    /\ Throws(endTag(document, policy, elements, start_position, nextOpen))

CommentThrows ==
    /\ AtOpener(open_comment)
    /\ Throws(delimited(document, elements, start_position, nextOpen, "Comment", close_comment))

CDataThrows ==
    /\ AtOpener(open_cdata)
    /\ Throws(delimited(document, elements, start_position, nextOpen, "CData", close_cdata))

ProcessingThrows ==
    /\ AtOpener(open_processing)
    /\ Throws(delimited(document, elements, start_position, nextOpen, "Processing", close_processing))

DeclarationThrows ==
    /\ AtOpener(open_declaration)
    /\ Throws(delimited(document, elements, start_position, nextOpen, "Declaration", close_declaration))

EndOfParseThrows ==
    /\ pc = "loop"
    /\ search_position >= length \/ nextOpen = NPOS
    /\ Throws(afterLoop(policy, elements, start_position,
                        IF search_position < length THEN nextOpen ELSE search_position))

NextOrThrow ==
    \/ Next
    \/ StartTagThrows
    \/ EndTagThrows
    \/ CommentThrows
    \/ CDataThrows
    \/ ProcessingThrows
    \/ DeclarationThrows
    \/ EndOfParseThrows

\* parse() with a handler that may throw
ThrowSpec == Init /\ [][NextOrThrow]_vars


----------------------------------------------------------------------------
\* Vocabulary of the properties

Done == pc = "done"

EventIndices == DOMAIN events

\* The events that carry a piece of the source: Text and full tags, comments,
\* CDATA sections, processing instructions and declarations
SpanKinds == {"Text", "StartTag", "EndTag", "Comment", "CData", "Processing", "Declaration"}

isSpan(e) == e.kind \in SpanKinds

Spans == SelectSeq(events, isSpan)

isText(e) == e.kind = "Text"

Texts == SelectSeq(events, isText)

isEndTagEvent(e) == e.kind = "EndTag"

\* The open-ids list of the EOF event (the last event of a finished parse)
EOFList == events[Len(events)].elements

\* The events of the end of parse: synthesized autoclose-by-parent end tags and EOF
isTailEvent(e) ==
    \/ e.kind = "EOF"
    \/ e.kind \in {"EndTagPrefix", "EndTag"} /\ e.state = autoclosedByParent

\* The ids that the events mention
EventIds ==
    {events[i].tagID : i \in EventIndices} \cup
    UNION {{events[i].elements[k] : k \in DOMAIN events[i].elements} : i \in EventIndices}

----------------------------------------------------------------------------
\* C1: parse() terminates.  From every state of the main loop the next
\* iteration strictly advances the search position (npos is above every
\* position) and its opaque scan and attribute loop advance until they end
\* (nothing hangs), so the search position, which is bounded, reaches the end
\* of the source or npos, where the loop exits and parse() ends.
InLoop == pc = "loop" /\ search_position < length /\ nextOpen # NPOS

C1_Terminates ==
    /\ pc # "hung"
    /\ InLoop => (~loopBody.hung /\ loopBody.search > search_position)
    /\ Done => (search_position >= length)

\* A finished parse that went through the opaque scan past an end tag of
\* another name and through several iterations of the main loop
C1_Witness ==
    /\ Done
    /\ \E i \in EventIndices :
         /\ events[i].kind = "StartTag"
         /\ isOpaqueElement(policy, events[i].tagID)
         /\ i + 2 \in EventIndices
         /\ events[i + 1].kind = "Text"
         /\ find(document, open_end_tag, events[i + 1].all.start) < events[i + 1].all.end
         /\ events[i + 2].kind = "EndTagPrefix"
         /\ events[i + 2].state = matched

----------------------------------------------------------------------------
\* C2: exactly one EOF event is delivered and it is the last event: an EOF
\* event is only ever the last event and belongs to a finished parse, and a
\* finished parse has delivered one.
C2_OneEOFLast ==
    /\ \A i \in EventIndices : events[i].kind = "EOF" => (i = Len(events) /\ Done)
    /\ Done => (events # <<>> /\ events[Len(events)].kind = "EOF")

\* A finished parse whose end closed an element before EOF
C2_Witness ==
    /\ Done
    /\ Len(events) >= 4
    /\ events[Len(events)].kind = "EOF"
    /\ events[Len(events) - 1].kind = "EndTag"
    /\ events[Len(events) - 1].state = autoclosedByParent

----------------------------------------------------------------------------
\* C3: the Text ranges and the all ranges of full tags, comments, CDATA,
\* processing instructions and declarations, in emission order, reconstruct
\* the source: the first starts at 0, each next starts where the previous one
\* ended, synthesized end tags are empty, and the texts of the ranges of a
\* finished parse concatenate to the document.
C3_Reconstructs ==
    LET s == Spans
    IN  /\ Len(s) > 0 => s[1].all.start = 0
        /\ \A i \in 1..(Len(s) - 1) : s[i + 1].all.start = s[i].all.end
        /\ \A i \in 1..Len(s) :
             (s[i].kind = "EndTag" /\ isAutoclosed(s[i].state)) => s[i].all.start = s[i].all.end
        /\ Done => Flatten([i \in 1..Len(s) |-> getText(document, s[i].all)]) = document

\* A finished parse with text, tags and a synthesized end tag
C3_Witness ==
    /\ Done
    /\ Len(Spans) >= 4
    /\ \E i \in 1..Len(Spans) : Spans[i].kind = "Text"
    /\ \E i \in 1..Len(Spans) : Spans[i].kind = "EndTag" /\ isAutoclosed(Spans[i].state)
    /\ \E i \in 1..Len(Spans) : Spans[i].kind = "Comment"

----------------------------------------------------------------------------
\* C4: every complete range that an event carries (all, name, value) lies in
\* the source: 0 <= start <= end <= source.length.
InSource(r) == isComplete(r) => (0 <= r.start /\ r.start <= r.end /\ r.end <= length)

C4_RangesInSource ==
    \A i \in EventIndices :
        InSource(events[i].all) /\ InSource(events[i].name) /\ InSource(events[i].value)

\* A tag that ends at the end of the source, with an attribute whose value is
\* complete and not empty
C4_Witness ==
    /\ Done
    /\ \E i \in EventIndices :
         /\ events[i].kind = "StartTagAttribute"
         /\ isComplete(events[i].value)
         /\ events[i].value.start < events[i].value.end
    /\ \E i \in EventIndices : events[i].kind = "StartTag" /\ events[i].all.end = length

----------------------------------------------------------------------------
\* C5: parse() never constructs a range with start < 0 or end < start, so the
\* LandmarksRange constructor never throws.
C5_NeverThrows == pc # "threw"

\* A finished parse of a malformed source: text, then a start tag cut short
\* inside its name
C5_Witness ==
    /\ Done
    /\ \E i \in EventIndices : events[i].kind = "StartTag" /\ ~isComplete(events[i].name)
    /\ \E i \in EventIndices : events[i].kind = "Text"

----------------------------------------------------------------------------
\* C6, as stated: for every id, the number of StartTag events that are not
\* self-closing equals the number of EndTag events that close an element
\* (matched or autoclosed) plus the occurrences of the id in the EOF list.
Opened(id) ==
    {i \in EventIndices :
        /\ events[i].kind = "StartTag"
        /\ events[i].tagID = id
        /\ ~isSelfClosing(events[i].selfClosingMarker, events[i].selfClosingPolicy)}

Closed(id) ==
    {i \in EventIndices :
        /\ events[i].kind = "EndTag"
        /\ events[i].tagID = id
        /\ (events[i].state = matched \/ isAutoclosed(events[i].state))}

StillOpen(id) == {k \in DOMAIN EOFList : EOFList[k] = id}

C6_Balanced ==
    Done => \A id \in EventIds :
              Cardinality(Opened(id)) = Cardinality(Closed(id)) + Cardinality(StillOpen(id))

\* C6, amended: the balance holds when the StartTag events counted are those
\* whose name is complete; a start tag cut short inside its name is reported
\* but opens no element.
C6_BalancedComplete ==
    Done => \A id \in EventIds :
              Cardinality({i \in Opened(id) : isComplete(events[i].name)})
                = Cardinality(Closed(id)) + Cardinality(StillOpen(id))

\* A finished parse where an id was opened twice, closed once and is still
\* open once
C6_Witness ==
    /\ Done
    /\ \E id \in EventIds :
         /\ Cardinality(Opened(id)) = 2
         /\ Cardinality(Closed(id)) = 1
         /\ Cardinality(StillOpen(id)) = 1

----------------------------------------------------------------------------
\* C7, as stated: the EOF list holds only ids that are not autoclose-by-parent.
C7_NoAutocloseByParentOpen ==
    Done => \A k \in DOMAIN EOFList : ~isAutocloseByParent(policy, EOFList[k])

\* C7, amended: the end of parse closes the run of autoclose-by-parent
\* elements at the top of the stack, innermost first, each with a synthesized
\* EndTag of state autoclosedByParent, and EOF reports the rest of the stack:
\* a list that is empty or whose last (innermost) id is not
\* autoclose-by-parent.
C7_Tail ==
    (pc = "loop" /\ pc' = "done") =>
        LET eof == events'[Len(events')].elements
            run == SubSeq(elements, Len(eof) + 1, Len(elements))
            new == SubSeq(events', Len(events) + 1, Len(events'))
            closed == SelectSeq(new, isEndTagEvent)
        IN  /\ Len(eof) <= Len(elements)
            /\ eof = SubSeq(elements, 1, Len(eof))
            /\ eof = <<>> \/ ~isAutocloseByParent(policy, eof[Len(eof)])
            /\ \A k \in DOMAIN run : isAutocloseByParent(policy, run[k])
            /\ Len(closed) = Len(run)
            /\ \A k \in DOMAIN closed :
                 /\ closed[k].tagID = run[Len(run) + 1 - k]
                 /\ closed[k].state = autoclosedByParent

C7_TopRunClosed == [][C7_Tail]_vars

\* A finished parse that closed the autoclose-by-parent element at the top and
\* reports an autoclose-by-parent element below another element as open
C7_Witness ==
    /\ Done
    /\ Len(events) >= 2
    /\ events[Len(events) - 1].kind = "EndTag"
    /\ events[Len(events) - 1].state = autoclosedByParent
    /\ \E k \in DOMAIN EOFList : isAutocloseByParent(policy, EOFList[k])

----------------------------------------------------------------------------
\* C8: a source whose only '<' characters are not followed by a valid element
\* name start (nor by another opener) produces a single Text event over the
\* whole source.
isFolded(p) ==
    /\ choose(document, p, open_choices) = open
    /\ getElementNameStart(document, p + Len(open)) = NPOS

OnlyFoldedOpeners ==
    /\ \E p \in 0..(length - 1) : charAt(document, p) = "<"
    /\ \A p \in 0..(length - 1) : charAt(document, p) = "<" => isFolded(p)

C8_SingleText ==
    (Done /\ OnlyFoldedOpeners) =>
        /\ Len(Texts) = 1
        /\ Texts[1].all.start = 0
        /\ Texts[1].all.end \in {length, NPOS}

----------------------------------------------------------------------------
\* C9: the final Text event (the one that only the events of the end of parse
\* follow) has the range [anchor, source.length), a complete range, and is
\* emitted only when that range is not empty.
isFinalText(i) ==
    /\ events[i].kind = "Text"
    /\ \A j \in (i + 1)..Len(events) : isTailEvent(events[j])

C9_FinalText ==
    Done => \A i \in EventIndices :
              isFinalText(i) => (events[i].all.end = length /\ events[i].all.start < length)

----------------------------------------------------------------------------
\* C10, as stated: for every start tag of an opaque element that is not
\* self-closing, exactly one Text event lies between its StartTag and the
\* prefix of its matching end tag (or EOF when there is none), and it spans
\* the source from the end of the start tag to the "</" of the matching end
\* tag.

\* The id of the end tag that starts at p: its name runs to the first
\* character that ends an element name, or to the end of the source
endTagIdAt(p) ==
    LET from == p + Len(open_end_tag)
        to == findFirstOf(document, element_name_end, from)
    IN  getTagID(substr(document, from, (IF to = NPOS THEN length ELSE to) - from))

\* The offset of the first end tag at or after from whose name normalizes to id
matchingEndTag(from, id) ==
    LET at == {p \in from..(length - 1) :
                  startsWithAt(document, open_end_tag, p) /\ isSameElement(id, endTagIdAt(p))}
    IN  IF at = {} THEN NPOS ELSE Min(at)

isOpaqueStart(i) ==
    /\ events[i].kind = "StartTag"
    /\ isOpaqueElement(policy, events[i].tagID)
    /\ ~isSelfClosing(events[i].selfClosingMarker, events[i].selfClosingPolicy)

\* The index of the first event after i that is not a Text event
afterContent(i) == Min({j \in (i + 1)..Len(events) : events[j].kind # "Text"})

contentLimit(i) == matchingEndTag(events[i].all.end, events[i].tagID)

C10_OneText ==
    Done => \A i \in EventIndices :
              isOpaqueStart(i) =>
                /\ afterContent(i) = i + 2
                /\ events[i + 1].all = Range(events[i].all.end, contentLimit(i))
                /\ contentLimit(i) # NPOS =>
                     /\ events[i + 2].kind = "EndTagPrefix"
                     /\ events[i + 2].all.start = contentLimit(i)

\* C10, amended: between the StartTag of an opaque element that is not
\* self-closing and its matching end tag there is one Text event, spanning the
\* source from the end of the start tag to the "</" of the matching end tag,
\* when that span is not empty, and no event when it is empty.  When no
\* matching end tag exists, one Text event from the end of the start tag with
\* an incomplete range follows a start tag that is closed, no event follows a
\* start tag that is not, and then the parse ends.
C10_TextWhenContent ==
    Done => \A i \in EventIndices :
              isOpaqueStart(i) =>
                LET from == events[i].all.end
                    to == contentLimit(i)
                    next == afterContent(i)
                IN  IF to # NPOS
                    THEN /\ events[next].kind = "EndTagPrefix"
                         /\ events[next].all.start = to
                         /\ next = IF from < to THEN i + 2 ELSE i + 1
                         /\ from < to => events[i + 1].all = Range(from, to)
                    ELSE /\ \A j \in next..Len(events) : isTailEvent(events[j])
                         /\ next = IF from # NPOS THEN i + 2 ELSE i + 1
                         /\ from # NPOS => events[i + 1].all = Range(from, NPOS)

\* A finished parse with an opaque element whose content holds an end tag of
\* another name, then its matching end tag
C10_Witness ==
    /\ Done
    /\ \E i \in EventIndices :
         /\ isOpaqueStart(i)
         /\ contentLimit(i) # NPOS
         /\ events[i].all.end < contentLimit(i)
         /\ find(document, open_end_tag, events[i].all.end) < contentLimit(i)

----------------------------------------------------------------------------
\* C11, as stated: between the StartTag of an opaque element that is not
\* self-closing and the EndTagPrefix of the first end tag whose name
\* normalizes to the same id, only Text is delivered, and that end tag is
\* reported as matched.

\* The index of the EndTag event of the end tag whose EndTagPrefix is event j
endTagOf(j) == Min({k \in (j + 1)..Len(events) : events[k].kind = "EndTag"})

\* The name of the end tag at p is followed by a character that ends it
isCompleteEndTagName(p) ==
    findFirstOf(document, element_name_end, p + Len(open_end_tag)) # NPOS

----------------------------------------------------------------------------
\* Vocabulary of the properties of one step

\* The step is an iteration of the main loop at an opener of the given kind
AtToken(choice) ==
    /\ pc = "loop"
    /\ search_position < length
    /\ nextOpen # NPOS
    /\ choose(document, nextOpen, open_choices) = choice

\* The events that the step delivers
newEvents == SubSeq(events', Len(events) + 1, Len(events'))

lastEvent == events'[Len(events')]

\* An end tag event that the parser made up to close an open element
isSynthesized(e) == e.kind \in {"EndTagPrefix", "EndTag"} /\ isAutoclosed(e.state)

\* The EndTagPrefix and EndTag events, empty ranges at the offset at, that
\* close the elements ids in order with the state state
expectedSweep(ids, at, state) ==
    [n \in 1..(2 * Len(ids)) |->
        Effect(IF n % 2 = 1 THEN "EndTagPrefix" ELSE "EndTag", Range(at, at), Range(at, at),
               invalid, ids[(n + 1) \div 2], state, allowed, absent, <<>>)]

\* The elements above the index k of the stack, the top first
framesAbove(k) == [n \in 1..(Len(elements) - k) |-> elements[Len(elements) + 1 - n]]

\* The index of the topmost open element with the id, 0 if none is open
openIndex(id) == topmostSame(elements, id, Len(elements))

\* The step is the end tag branch and it delivers the end tag
EndTagStep == AtToken(open_end_tag) /\ pc' = "loop" /\ lastEvent.kind = "EndTag"

----------------------------------------------------------------------------
\* C12: an end tag reported as unmatched leaves the stack of open elements as
\* it was and no synthesized end tag is delivered for it; an end tag that is
\* not a landmark and whose walk from the top meets, before an element of its
\* id, an element that is not autoclose-by-parent is reported as unmatched.
isBlocked(id) ==
    /\ id \notin policy.AutoclosingEndTags
    /\ \E k \in DOMAIN elements :
         /\ elements[k] # id
         /\ elements[k] \notin policy.AutocloseByParent
         /\ \A m \in (k + 1)..Len(elements) : elements[m] # id

C12_Step ==
    EndTagStep =>
        /\ lastEvent.state = unmatched =>
             /\ elements' = elements
             /\ SelectSeq(newEvents, isSynthesized) = <<>>
        /\ isBlocked(lastEvent.tagID) => lastEvent.state = unmatched

C12_UnmatchedClosesNothing == [][C12_Step]_vars

\* <a><b></a> without autoclose rules: the end tag of a is unmatched, a and b
\* stay open
C12_Witness ==
    /\ Done
    /\ policy = PlainPolicy
    /\ EOFList = <<ida, idb>>
    /\ \E i \in EventIndices :
         events[i].kind = "EndTag" /\ events[i].tagID = ida /\ events[i].state = unmatched

----------------------------------------------------------------------------
\* C13: a landmark end tag with an open element of its id closes every
\* element above the nearest one, the top first, each with a synthesized
\* EndTagPrefix and EndTag of state autoclosedByAncestor, then pops that
\* element, and the end tag is reported as matched.
C13_Step ==
    LET id == lastEvent.tagID
        k == openIndex(id)
    IN  (EndTagStep /\ id \in policy.AutoclosingEndTags /\ k # 0) =>
            /\ SelectSeq(newEvents, isSynthesized)
                 = expectedSweep(framesAbove(k), nextOpen, autoclosedByAncestor)
            /\ elements' = SubSeq(elements, 1, k - 1)
            /\ lastEvent.state = matched

C13_LandmarkClosesAll == [][C13_Step]_vars

\* <a><b></a> with a a landmark and b not autoclose-by-parent: b is closed by
\* its ancestor, a is matched, nothing stays open
C13_Witness ==
    /\ Done
    /\ EOFList = <<>>
    /\ \E i \in EventIndices :
         /\ events[i].kind = "EndTag"
         /\ events[i].state = autoclosedByAncestor
         /\ events[i].tagID \notin policy.AutocloseByParent
         /\ i + 1 \in EventIndices
         /\ events[i + 1].kind = "EndTagPrefix"
         /\ events[i + 1].state = matched
         /\ events[i + 1].tagID \in policy.AutoclosingEndTags

----------------------------------------------------------------------------
\* C14: a landmark end tag with no open element of its id closes nothing: no
\* synthesized end tag, the stack as it was, the end tag unmatched.
C14_Step ==
    LET id == lastEvent.tagID
    IN  (EndTagStep /\ id \in policy.AutoclosingEndTags /\ openIndex(id) = 0) =>
            /\ SelectSeq(newEvents, isSynthesized) = <<>>
            /\ elements' = elements
            /\ lastEvent.state = unmatched

C14_LandmarkWithoutTarget == [][C14_Step]_vars

\* A landmark end tag arrived while other elements were open, and they are
\* still open at the end
C14_Witness ==
    /\ Done
    /\ EOFList # <<>>
    /\ \E i \in EventIndices :
         /\ events[i].kind = "EndTag"
         /\ events[i].state = unmatched
         /\ events[i].tagID \in policy.AutoclosingEndTags
         /\ i > 2
         /\ events[i - 2].kind = "StartTag"
         /\ \A n \in DOMAIN EOFList : EOFList[n] # events[i].tagID

----------------------------------------------------------------------------
\* C15: an end tag that is not a landmark, with an open element of its id
\* that is not on top and with only autoclose-by-parent elements above it,
\* closes each of those, the top first, with a synthesized EndTagPrefix and
\* EndTag of state autoclosedByParent, then pops the element, and is reported
\* as matched.
C15_Step ==
    LET id == lastEvent.tagID
        k == openIndex(id)
    IN  (/\ EndTagStep
         /\ id \notin policy.AutoclosingEndTags
         /\ k # 0 /\ k < Len(elements)
         /\ \A m \in (k + 1)..Len(elements) : elements[m] \in policy.AutocloseByParent) =>
            /\ SelectSeq(newEvents, isSynthesized)
                 = expectedSweep(framesAbove(k), nextOpen, autoclosedByParent)
            /\ elements' = SubSeq(elements, 1, k - 1)
            /\ lastEvent.state = matched

C15_ParentClosesChildren == [][C15_Step]_vars

\* An end tag closed an autoclose-by-parent child and matched its own element
C15_Witness ==
    /\ Done
    /\ \E i \in EventIndices :
         /\ events[i].kind = "EndTag"
         /\ events[i].state = autoclosedByParent
         /\ i + 1 \in EventIndices
         /\ events[i + 1].kind = "EndTagPrefix"
         /\ events[i + 1].state = matched
         /\ events[i + 1].tagID \notin policy.AutoclosingEndTags
         /\ events[i + 1].tagID # events[i].tagID

----------------------------------------------------------------------------
\* The step is the start tag branch with a complete name and it delivers the
\* start tag
StartTagStep ==
    /\ AtToken(open)
    /\ getElementNameStart(document, nextOpen + Len(open)) # NPOS
    /\ pc' = "loop"
    /\ lastEvent.kind = "StartTag"
    /\ isComplete(lastEvent.name)

\* The start tag event says that the tag is self-closing
saysSelfClosing(e) ==
    \/ e.selfClosingPolicy = required
    \/ e.selfClosingPolicy = allowed /\ e.selfClosingMarker = present

\* The number of elements that the step closes with synthesized end tags
swept == Len(SelectSeq(newEvents, isSynthesized)) \div 2

\* The stack after the sweep of the step
afterSweep == SubSeq(elements, 1, Len(elements) - swept)

\* The index in newEvents of the first event of the given kind, 0 if none
firstNew(kind) ==
    LET at == {n \in DOMAIN newEvents : newEvents[n].kind = kind}
    IN  IF at = {} THEN 0 ELSE Min(at)

----------------------------------------------------------------------------
\* C16: a start tag with id T closes the nearest open element O (from the
\* top) with isAutoclosingSibling(O, T) and every element above it, the top
\* first, each with a synthesized EndTagPrefix and EndTag of state
\* autoclosedBySibling delivered before the StartTagPrefix of T; the elements
\* below O stay; when there is no such O nothing is closed.
siblingOf(id) ==
    LET found == {k \in DOMAIN elements : <<elements[k], id>> \in policy.AutocloseBySibling}
    IN  IF found = {} THEN 0 ELSE CHOOSE k \in found : \A m \in found : m <= k

C16_Step ==
    LET id == lastEvent.tagID
        k == siblingOf(id)
        below == IF k = 0 THEN elements ELSE SubSeq(elements, 1, k - 1)
        sweep == IF k = 0 THEN <<>>
                 ELSE expectedSweep(framesAbove(k - 1), nextOpen, autoclosedBySibling)
        prefix == firstNew("StartTagPrefix")
    IN  StartTagStep =>
            /\ SelectSeq(newEvents, isSynthesized) = sweep
            /\ prefix # 0
            /\ SelectSeq(SubSeq(newEvents, 1, prefix - 1), isSynthesized) = sweep
            /\ elements' \in {below, Append(below, id)}

----------------------------------------------------------------------------
\* C17: in every step (a sibling sweep, an end-tag sweep, the end of parse)
\* the synthesized end tags come in pop order: the n-th EndTagPrefix and
\* EndTag pair carries the id of the n-th element from the top of the stack,
\* so the most recently opened element is closed first.
C17_Step ==
    LET all == SelectSeq(newEvents, isSynthesized)
    IN  pc = "loop" =>
            /\ Len(all) = 2 * swept
            /\ swept <= Len(elements)
            /\ \A n \in 1..swept :
                 /\ all[2 * n - 1].kind = "EndTagPrefix"
                 /\ all[2 * n].kind = "EndTag"
                 /\ all[2 * n - 1].tagID = elements[Len(elements) + 1 - n]
                 /\ all[2 * n].tagID = elements[Len(elements) + 1 - n]
            /\ \/ elements' = afterSweep
               \/ elements' # <<>> /\ SubSeq(elements', 1, Len(elements') - 1) = afterSweep
               \/ afterSweep # <<>> /\ elements' = SubSeq(afterSweep, 1, Len(afterSweep) - 1)

----------------------------------------------------------------------------
\* C18: at the end of input the run of autoclose-by-parent elements at the
\* top of the stack is popped, each with a synthesized EndTagPrefix and EndTag
\* of state autoclosedByParent, and then EOF is delivered with the rest.
parentRunStart ==
    LET kept == {k \in DOMAIN elements : elements[k] \notin policy.AutocloseByParent}
    IN  IF kept = {} THEN 0 ELSE CHOOSE k \in kept : \A m \in kept : m <= k

C18_Step ==
    (pc = "loop" /\ pc' = "done") =>
        LET k == parentRunStart
            sweep == expectedSweep(framesAbove(k), search_position', autoclosedByParent)
            first == firstNew("EndTagPrefix")
        IN  /\ SelectSeq(newEvents, isSynthesized) = sweep
            /\ lastEvent = EOFEvent(SubSeq(elements, 1, k))
            /\ elements' = SubSeq(elements, 1, k)
            /\ sweep # <<>> =>
                 SubSeq(newEvents, first, Len(newEvents) - 1) = sweep

C18_EndOfInputTail == [][C18_Step]_vars

\* <b>x with b autoclose-by-parent: the text, then the synthesized end tag of
\* b, then EOF with nothing open
C18_Witness ==
    /\ Done
    /\ Len(events) = 6
    /\ events[2].kind = "StartTag"
    /\ events[3].kind = "Text"
    /\ events[4].kind = "EndTagPrefix"
    /\ events[5].kind = "EndTag"
    /\ events[5].state = autoclosedByParent
    /\ events[5].tagID = events[2].tagID
    /\ EOFList = <<>>

----------------------------------------------------------------------------
\* C19: a start tag that is self-closing is not pushed on the stack, starts
\* no opaque scan (the search resumes at the end of the tag) and gets no end
\* tag of its own: the stack always holds the start tags that are not
\* self-closing and that no closing end tag has popped.

\* The stack of open elements that the events evs tell: a start tag with a
\* complete name that is not self-closing opens its element, a matched or
\* autoclosed end tag closes the innermost open element, which has its id
stackOf(evs) ==
    LET st[n \in 0..Len(evs)] ==
            IF n = 0 THEN <<>>
            ELSE LET e == evs[n]
                     prev == st[n - 1]
                 IN  IF e.kind = "StartTag" /\ isComplete(e.name) /\ ~saysSelfClosing(e)
                     THEN Append(prev, e.tagID)
                     ELSE IF e.kind = "EndTag" /\ (e.state = matched \/ isAutoclosed(e.state))
                     THEN IF prev # <<>> /\ prev[Len(prev)] = e.tagID
                          THEN SubSeq(prev, 1, Len(prev) - 1)
                          ELSE <<"no element to close">>
                     ELSE prev
    IN  st[Len(evs)]

C19_Step ==
    /\ (StartTagStep /\ saysSelfClosing(lastEvent)) =>
          /\ elements' = afterSweep
          /\ search_position' = lastEvent.all.end
          /\ start_position' = lastEvent.all.end
    /\ pc = "loop" => stackOf(events') = elements'

C19_SelfClosingNotPushed == [][C19_Step]_vars

\* A self-closing start tag of an opaque element, and then markup that is
\* parsed as markup
C19_Witness ==
    /\ Done
    /\ \E i \in EventIndices :
         /\ events[i].kind = "StartTag"
         /\ saysSelfClosing(events[i])
         /\ events[i].tagID \in policy.OpaqueElements
         /\ i + 1 \in EventIndices
         /\ events[i + 1].kind = "StartTagPrefix"
         /\ \A n \in DOMAIN EOFList : EOFList[n] # events[i].tagID

----------------------------------------------------------------------------
\* C20: a start tag with a complete name has the selfClosingPolicy required
\* when its id is a void element, else prohibited when it is a content
\* element, else allowed; a content element is pushed whatever its marker, a
\* void element is never pushed.
policyOf(id) ==
    IF id \in policy.VoidElements THEN required
    ELSE IF id \in policy.ContentElements THEN prohibited
    ELSE allowed

C20_Step ==
    StartTagStep =>
        LET id == lastEvent.tagID
        IN  /\ lastEvent.selfClosingPolicy = policyOf(id)
            /\ policyOf(id) = prohibited => elements' = Append(afterSweep, id)
            /\ policyOf(id) = required => elements' = afterSweep
            /\ policyOf(id) = allowed =>
                 elements' = IF lastEvent.selfClosingMarker = present
                             THEN afterSweep ELSE Append(afterSweep, id)

C20_SelfClosingPolicy == [][C20_Step]_vars

\* A content element written with the self-closing marker stays open
C20_Witness ==
    /\ Done
    /\ \E i \in EventIndices :
         /\ events[i].kind = "StartTag"
         /\ events[i].selfClosingPolicy = prohibited
         /\ events[i].selfClosingMarker = present
         /\ \E n \in DOMAIN EOFList : EOFList[n] = events[i].tagID

----------------------------------------------------------------------------
\* The start tags that a '>' closes
isClosedStartTag(i) ==
    /\ events[i].kind = "StartTag"
    /\ isComplete(events[i].all)

\* The byte before the closing '>' of the tag of event i
byteBeforeClose(i) == charAt(document, events[i].all.end - 2)

\* The last attribute of the tag of event i has an unquoted value that runs up
\* to the closing '>', so that the byte before the '>' belongs to the value
valueRunsToClose(i) ==
    /\ i > 1
    /\ events[i - 1].kind = "StartTagAttribute"
    /\ events[i - 1].value.end = events[i].all.end - 1
    /\ events[i - 1].value.start < events[i - 1].value.end

\* C21, as stated: for every start tag that a '>' closes, selfClosingMarker is
\* present if and only if the byte before that '>' is '/'.
C21_MarkerIffSlash ==
    \A i \in EventIndices :
        isClosedStartTag(i) =>
            (events[i].selfClosingMarker = present <=> byteBeforeClose(i) = "/")

\* C21, amended: selfClosingMarker is present if and only if the byte before
\* the closing '>' is '/' and that byte is not the end of an unquoted
\* attribute value.
C21_MarkerIffSlashOutsideValue ==
    \A i \in EventIndices :
        isClosedStartTag(i) =>
            (events[i].selfClosingMarker = present
                <=> (byteBeforeClose(i) = "/" /\ ~valueRunsToClose(i)))

\* A start tag with an attribute and then the self-closing marker
C21_Witness ==
    /\ Done
    /\ \E i \in EventIndices :
         /\ isClosedStartTag(i)
         /\ i > 1
         /\ events[i - 1].kind = "StartTagAttribute"
         /\ events[i].selfClosingMarker = present
         /\ byteBeforeClose(i) = "/"

----------------------------------------------------------------------------
\* The id that the name of the end tag at the opener of the step gives:
\* UnknownTagID when the source ends inside the name
ownEndTagId ==
    IF findFirstOf(document, element_name_end, nextOpen + Len(open_end_tag)) = NPOS
    THEN UnknownTagID
    ELSE endTagIdAt(nextOpen)

\* The EndTagPrefix and the EndTag that the step delivers carry the id and the state
reportsEndTag(id, state) ==
    /\ lastEvent.tagID = id
    /\ lastEvent.state = state
    /\ \E n \in DOMAIN newEvents :
         /\ newEvents[n].kind = "EndTagPrefix"
         /\ ~isAutoclosed(newEvents[n].state)
         /\ newEvents[n].tagID = id
         /\ newEvents[n].state = state

\* C22: an end tag whose id is a wildcard takes the id of the top of a stack
\* that is not empty: it is reported with that id and the state matched, it
\* pops the top and nothing else and no end tag is synthesized; with an empty
\* stack it keeps its id and is unmatched.
C22_Step ==
    (EndTagStep /\ ownEndTagId \in policy.WildcardEndTags) =>
        IF elements # <<>>
        THEN /\ reportsEndTag(elements[Len(elements)], matched)
             /\ elements' = SubSeq(elements, 1, Len(elements) - 1)
             /\ swept = 0
        ELSE /\ reportsEndTag(ownEndTagId, unmatched)
             /\ elements' = <<>>
             /\ swept = 0

C22_WildcardEndTag == [][C22_Step]_vars

\* </> closed an open element and was reported with the id of that element
C22_Witness ==
    /\ Done
    /\ \E i \in EventIndices :
         /\ events[i].kind = "EndTag"
         /\ events[i].state = matched
         /\ isComplete(events[i].name)
         /\ isEmpty(events[i].name)
         /\ events[i].tagID = ida
         /\ <<>> \in policy.WildcardEndTags
         /\ i > 2
         /\ events[i - 2].kind = "StartTag"

----------------------------------------------------------------------------
\* Vocabulary of the attributes of a tag

\* The end of a range in the source: the end of the source when incomplete
endOr(r) == IF r.end = NPOS THEN length ELSE r.end

\* The index of the last event of the kind before the event i, 0 if none
lastBefore(i, kind) ==
    LET at == {j \in 1..(i - 1) : events[j].kind = kind}
    IN  IF at = {} THEN 0 ELSE CHOOSE j \in at : \A k \in at : k <= j

\* The offsets of the tag of event i after its name, without its closing '>'
attributeRegion(i) ==
    events[i].name.end ..
        ((IF isComplete(events[i].all) THEN events[i].all.end - 1 ELSE length) - 1)

\* The character at q is written as part of an attribute: it is neither a
\* separator of attributes nor the sign between a name and its value
isWritten(q) == charAt(document, q) \notin (attribute_spaces \cup {"="})

\* The name of the attribute event e is one whole name of the source: it
\* starts on a character that can start a name, holds no character that ends
\* a name after the first, and stops at a character that ends a name or at
\* the end of the source
isOneName(e) ==
    /\ e.name.start < endOr(e.name)
    /\ e.all.start = e.name.start
    /\ charAt(document, e.name.start) \notin (attribute_spaces \cup {">"})
    /\ \A q \in (e.name.start + 1)..(endOr(e.name) - 1) :
           charAt(document, q) \notin attribute_name_end
    /\ isComplete(e.name) => charAt(document, e.name.end) \in attribute_name_end

\* The attribute events of the tag whose prefix is event j and whose full tag
\* is event i report the attributes written in the tag, one event each, in
\* source order
reportsAttributes(j, i, kind) ==
    /\ \A k \in (j + 1)..(i - 1) :
         /\ events[k].kind = kind
         /\ isOneName(events[k])
         /\ events[k].all.start >= events[i].name.end
         /\ k + 1 < i => events[k].all.end <= events[k + 1].all.start
    /\ \A q \in attributeRegion(i) :
         isWritten(q) =>
            \E k \in (j + 1)..(i - 1) :
                events[k].all.start <= q /\ q < endOr(events[k].all)

\* C23: every attribute written on a start tag is reported by exactly one
\* StartTagAttribute event, the events are in source order and all of them
\* are between the StartTagPrefix and the StartTag of the tag; attributes
\* with the same name are each reported.
C23_StartTagAttributes ==
    /\ \A i \in EventIndices :
         (events[i].kind = "StartTag" /\ isComplete(events[i].name)) =>
            /\ lastBefore(i, "StartTagPrefix") # 0
            /\ reportsAttributes(lastBefore(i, "StartTagPrefix"), i, "StartTagAttribute")
    /\ \A k \in EventIndices :
         events[k].kind = "StartTagAttribute" =>
            \E i \in (k + 1)..Len(events) :
                events[i].kind = "StartTag" /\ lastBefore(i, "StartTagPrefix") < k

\* A start tag with two attributes of the same name, each reported
C23_Witness ==
    /\ Done
    /\ \E i \in EventIndices :
         /\ i > 3
         /\ events[i].kind = "StartTag"
         /\ events[i - 1].kind = "StartTagAttribute"
         /\ events[i - 2].kind = "StartTagAttribute"
         /\ events[i - 3].kind = "StartTagPrefix"
         /\ getText(document, events[i - 1].name) = getText(document, events[i - 2].name)
         /\ events[i - 2].all.end <= events[i - 1].all.start

----------------------------------------------------------------------------
\* The kinds of the events of a tag
prefixKind(kind) == IF kind = "StartTag" THEN "StartTagPrefix" ELSE "EndTagPrefix"
attributeKind(kind) == IF kind = "StartTag" THEN "StartTagAttribute" ELSE "EndTagAttribute"

\* The events j (the prefix) and i (the full tag) are of the same tag
isSameTag(j, i) ==
    /\ events[j].kind = prefixKind(events[i].kind)
    /\ events[j].all.start = events[i].all.start
    /\ events[j].name = events[i].name
    /\ events[j].tagID = events[i].tagID
    /\ events[j].state = events[i].state

\* The index of the first event after j that is not an attribute event, 0 if none
fullTagAfter(j) ==
    LET at == {i \in (j + 1)..Len(events) :
                  events[i].kind \notin {"StartTagAttribute", "EndTagAttribute"}}
    IN  IF at = {} THEN 0 ELSE Min(at)

\* C24: the events of one tag are contiguous and in order: after a
\* StartTagPrefix come StartTagAttribute events only and then the StartTag of
\* the same tag, after an EndTagPrefix come EndTagAttribute events only and
\* then the EndTag of the same tag; every StartTag and EndTag has its prefix,
\* and the attributes written on an end tag are reported by EndTagAttribute.
C24_TagEventsContiguous ==
    /\ \A j \in EventIndices :
         events[j].kind \in {"StartTagPrefix", "EndTagPrefix"} =>
            LET i == fullTagAfter(j)
            IN  /\ i # 0
                /\ events[i].kind \in {"StartTag", "EndTag"}
                /\ isSameTag(j, i)
                /\ \A k \in (j + 1)..(i - 1) : events[k].kind = attributeKind(events[i].kind)
    /\ \A i \in EventIndices :
         events[i].kind \in {"StartTag", "EndTag"} =>
            LET j == lastBefore(i, prefixKind(events[i].kind))
            IN  j # 0 /\ fullTagAfter(j) = i
    /\ \A i \in EventIndices :
         (events[i].kind = "EndTag" /\ ~isAutoclosed(events[i].state)
            /\ isComplete(events[i].name)) =>
            reportsAttributes(lastBefore(i, "EndTagPrefix"), i, "EndTagAttribute")
    /\ \A k \in EventIndices :
         events[k].kind \in {"StartTagAttribute", "EndTagAttribute"} =>
            k > 1 /\ events[k - 1].kind \in {prefixKind("StartTag"), prefixKind("EndTag"),
                                              events[k].kind}

\* An end tag with an attribute: the prefix, the attribute, the end tag
C24_Witness ==
    /\ Done
    /\ \E i \in EventIndices :
         /\ i > 2
         /\ events[i].kind = "EndTag"
         /\ events[i - 1].kind = "EndTagAttribute"
         /\ isComplete(events[i - 1].value)
         /\ ~isEmpty(events[i - 1].value)
         /\ events[i - 2].kind = "EndTagPrefix"

----------------------------------------------------------------------------
\* C25: when a handler method throws, the exception leaves parse(): the call
\* that threw is the last handler call, so that no event, and no EOF, is
\* delivered after it, and parse() does not go on.
C25_ThrowEndsParse ==
    /\ \A i \in EventIndices :
         events[i].kind = "throw" =>
            /\ i = Len(events)
            /\ i > 1
            /\ pc = "aborted"
            /\ \A j \in 1..(i - 2) : events[j].kind \notin {"throw", "EOF"}
    /\ pc = "aborted" => (events # <<>> /\ events[Len(events)].kind = "throw")

\* The handler threw in StartTagPrefix, after a Text: no StartTag follows
C25_Witness ==
    /\ pc = "aborted"
    /\ Len(events) = 3
    /\ events[1].kind = "Text"
    /\ events[2].kind = "StartTagPrefix"
    /\ isComplete(events[2].name)

----------------------------------------------------------------------------
\* The StartTag event i is of a start tag whose name the end of the source cuts
isTruncatedStartTag(i) ==
    /\ events[i].kind = "StartTag"
    /\ ~isComplete(events[i].name)

\* The prefix and the full tag of a truncated start tag carry the same
\* incomplete ranges
truncatedPair(i) ==
    /\ i > 1
    /\ events[i - 1].kind = "StartTagPrefix"
    /\ events[i - 1].name = events[i].name
    /\ events[i - 1].all = events[i].all
    /\ ~isComplete(events[i].all)
    /\ events[i].name.start = events[i].all.start + 1

\* The stack of open elements before the tag of the StartTag event i
stackBefore(i) == stackOf(SubSeq(events, 1, i - 2))

\* C26, as stated: when the source ends inside the name of a start tag,
\* StartTagPrefix and StartTag are delivered with an incomplete name, and the
\* next event is the EOF with the stack as it was before the tag.
C26_TruncatedKeepsStack ==
    Done =>
        \A i \in EventIndices :
            isTruncatedStartTag(i) =>
                /\ truncatedPair(i)
                /\ i + 1 = Len(events)
                /\ EOFList = stackBefore(i)

\* C26, amended: after the truncated tag only the tail of the end of input
\* follows: the run of autoclose-by-parent elements at the top of the stack is
\* closed with synthesized end tags, and the EOF reports the stack as it was
\* before the tag without that run.
C26_TruncatedThenTail ==
    Done =>
        \A i \in EventIndices :
            isTruncatedStartTag(i) =>
                LET stack == stackBefore(i)
                    n == (Len(events) - 1 - i) \div 2
                IN  /\ truncatedPair(i)
                    /\ Len(events) = i + 2 * n + 1
                    /\ n <= Len(stack)
                    /\ SubSeq(events, i + 1, Len(events) - 1)
                         = [m \in 1..(2 * n) |->
                               Effect(IF m % 2 = 1 THEN "EndTagPrefix" ELSE "EndTag",
                                      invalid, invalid, invalid,
                                      stack[Len(stack) + 1 - ((m + 1) \div 2)],
                                      autoclosedByParent, allowed, absent, <<>>)]
                    /\ \A m \in 1..n : stack[Len(stack) + 1 - m] \in policy.AutocloseByParent
                    /\ EOFList = SubSeq(stack, 1, Len(stack) - n)
                    /\ EOFList # <<>> => EOFList[Len(EOFList)] \notin policy.AutocloseByParent

\* A truncated start tag inside an open element that stays open
C26_Witness ==
    /\ Done
    /\ \E i \in EventIndices :
         /\ isTruncatedStartTag(i)
         /\ stackBefore(i) # <<>>
         /\ EOFList = stackBefore(i)

----------------------------------------------------------------------------
\* The comments, CDATA sections, processing instructions and declarations
DelimitedKinds == {"Comment", "CData", "Processing", "Declaration"}

openerOf(kind) ==
    CASE kind = "Comment" -> open_comment
      [] kind = "CData" -> open_cdata
      [] kind = "Processing" -> open_processing
      [] kind = "Declaration" -> open_declaration

closerOf(kind) ==
    CASE kind = "Comment" -> close_comment
      [] kind = "CData" -> close_cdata
      [] kind = "Processing" -> close_processing
      [] kind = "Declaration" -> close_declaration

\* The event i is of a comment, CDATA section, processing instruction or
\* declaration whose closer is nowhere in the source after its start
isUnclosed(i) ==
    /\ events[i].kind \in DelimitedKinds
    /\ find(document, closerOf(events[i].kind), events[i].all.start) = NPOS

\* C27: when the source ends inside a comment, a CDATA section, a processing
\* instruction or a declaration, one event of that kind is delivered with the
\* range from the opener to NPOS, and after it only the synthesized end tags
\* of the end of input and the EOF: no Text and no other markup.
C27_UnclosedEndsParse ==
    Done =>
        \A i \in EventIndices :
            events[i].kind \in DelimitedKinds =>
                /\ choose(document, events[i].all.start, open_choices) = openerOf(events[i].kind)
                /\ isUnclosed(i) <=> ~isComplete(events[i].all)
                /\ isUnclosed(i) =>
                     /\ \A j \in (i + 1)..(Len(events) - 1) :
                            /\ events[j].kind \in {"EndTagPrefix", "EndTag"}
                            /\ events[j].state = autoclosedByParent
                            /\ events[j].all = invalid
                     /\ events[Len(events)].kind = "EOF"

\* An unclosed comment inside an element that the end of input closes
C27_Witness ==
    /\ Done
    /\ \E i \in EventIndices :
         /\ isUnclosed(i)
         /\ events[i].kind = "Comment"
         /\ events[i].all = Range(3, NPOS)
         /\ Len(events) = i + 3
         /\ events[i + 2].kind = "EndTag"

----------------------------------------------------------------------------
isAttributeEvent(k) == events[k].kind \in {"StartTagAttribute", "EndTagAttribute"}

\* The offset of the '=' after the name of the attribute event k, NPOS if none
equalsOf(k) ==
    LET at == skipSpaces(document, events[k].name.end)
    IN  IF at # NPOS /\ charAt(document, at) = "=" THEN at ELSE NPOS

\* The offset where the value of the attribute event k would start
valueOf(k) == skipSpaces(document, equalsOf(k) + 1)

\* The attribute has a name and '=', and then the '>' or the end of the source
hasNoValue(k) ==
    /\ isComplete(events[k].name)
    /\ equalsOf(k) # NPOS
    /\ valueOf(k) = NPOS \/ charAt(document, valueOf(k)) = ">"

\* The attribute has a value that opens with a quote that nothing closes
hasNoClosingQuote(k) ==
    /\ isComplete(events[k].name)
    /\ equalsOf(k) # NPOS
    /\ valueOf(k) # NPOS
    /\ charAt(document, valueOf(k)) \in {"\"", "'"}
    /\ find(document, <<charAt(document, valueOf(k))>>, valueOf(k) + 1) = NPOS

\* C28: a malformed attribute, that is a name and '=' with no value before
\* the '>' or the end of the source, or a quoted value without its closing
\* quote, is reported with value.end = NPOS.
C28_MalformedValueIncomplete ==
    \A k \in EventIndices :
        (isAttributeEvent(k) /\ (hasNoValue(k) \/ hasNoClosingQuote(k))) =>
            events[k].value.end = NPOS

----------------------------------------------------------------------------
\* C29: every '</' that the main loop meets gives an EndTagPrefix and an
\* EndTag that start at it, whatever follows the '</'; the only Text of the
\* step is the text before the '</', and the anchor moves to the end of the
\* end tag, so that the '</' is never part of a Text.
C29_Step ==
    AtToken(open_end_tag) =>
        /\ pc' = "loop"
        /\ Len(events') > Len(events)
        /\ lastEvent.kind = "EndTag"
        /\ ~isAutoclosed(lastEvent.state)
        /\ lastEvent.all.start = nextOpen
        /\ \E n \in DOMAIN newEvents :
             /\ newEvents[n].kind = "EndTagPrefix"
             /\ ~isAutoclosed(newEvents[n].state)
             /\ newEvents[n].all.start = nextOpen
        /\ \A n \in DOMAIN newEvents :
             newEvents[n].kind = "Text" =>
                (n = 1 /\ newEvents[n].all = Range(start_position, nextOpen))
        /\ start_position' = lastEvent.all.end
        /\ search_position' = lastEvent.all.end

C29_EndTagNeverText == [][C29_Step]_vars

\* An end tag whose '</' is followed by a character that cannot start a name
C29_Witness ==
    /\ Done
    /\ \E i \in EventIndices :
         /\ events[i].kind = "EndTag"
         /\ ~isAutoclosed(events[i].state)
         /\ isComplete(events[i].all)
         /\ getElementNameStart(document, events[i].all.start + Len(open_end_tag)) = NPOS
         /\ charAt(document, events[i].all.start + Len(open_end_tag)) = " "

----------------------------------------------------------------------------
Openers == {open_end_tag, open_comment, open_cdata, open_declaration, open_processing, open}

\* The longest opener that the source has at the offset p of a '<'
longestOpener(p) ==
    CHOOSE o \in Openers :
        /\ startsWithAt(document, o, p)
        /\ \A other \in Openers : startsWithAt(document, other, p) => Len(other) <= Len(o)

\* The kind of the event that reports the token of an opener
tokenKind(o) ==
    CASE o = open_end_tag -> "EndTag"
      [] o = open_comment -> "Comment"
      [] o = open_cdata -> "CData"
      [] o = open_declaration -> "Declaration"
      [] o = open_processing -> "Processing"
      [] o = open -> "StartTag"

\* C30: the token at a '<' is the one of the longest opener there: '</' gives
\* an end tag, '<!--' a Comment, '<![CDATA[' a CData, another '<!' a
\* Declaration, '<?' a Processing, and only a '<' with none of these is a
\* candidate for a start tag.
C30_Step ==
    (pc = "loop" /\ search_position < length /\ nextOpen # NPOS) =>
        LET o == longestOpener(nextOpen)
        IN  IF o = open
            THEN \A n \in DOMAIN newEvents :
                    \/ newEvents[n].kind \in {"Text", "StartTagPrefix", "StartTagAttribute",
                                              "StartTag"}
                    \/ isSynthesized(newEvents[n])
            ELSE /\ Len(events') > Len(events)
                 /\ lastEvent.kind = tokenKind(o)
                 /\ lastEvent.all.start = nextOpen
                 /\ ~isAutoclosed(lastEvent.state)

C30_LongestOpener == [][C30_Step]_vars

\* A CDATA section and a comment, each reported as what it is
C30_Witness ==
    /\ Done
    /\ \E i, j \in EventIndices :
         /\ events[i].kind = "CData"
         /\ startsWithAt(document, open_declaration, events[i].all.start)
         /\ events[j].kind = "Comment"
         /\ startsWithAt(document, open_declaration, events[j].all.start)

----------------------------------------------------------------------------
\* The step is at the opener of a comment, a CDATA section, a processing
\* instruction or a declaration
AtDelimited(kind) == AtToken(openerOf(kind))

\* The end of the first closer at or after the offset p, NPOS if none
closerEnd(kind, p) ==
    LET at == {q \in p..(length - 1) : startsWithAt(document, closerOf(kind), q)}
    IN  IF at = {} THEN NPOS ELSE Min(at) + Len(closerOf(kind))

\* C31: the closer of a comment, a CDATA section, a processing instruction or
\* a declaration is searched from the start of the opener, so that the two
\* may overlap; the event has the range from the opener to the end of that
\* closer, and the anchor and the search position resume there.
C31_Step ==
    \A kind \in DelimitedKinds :
        AtDelimited(kind) =>
            /\ Len(events') > Len(events)
            /\ lastEvent = RangeEvent(kind, nextOpen, closerEnd(kind, nextOpen))
            /\ start_position' = closerEnd(kind, nextOpen)
            /\ search_position' = closerEnd(kind, nextOpen)

C31_CloserFromOpener == [][C31_Step]_vars

\* <!--> is one complete comment
C31_Witness ==
    /\ Done
    /\ document = open_comment \o close
    /\ Len(events) = 2
    /\ events[1] = RangeEvent("Comment", 0, 5)

----------------------------------------------------------------------------
\* The event i is a StartTag or an EndTag of the source with a complete name
isWrittenTag(i) ==
    /\ events[i].kind \in {"StartTag", "EndTag"}
    /\ ~isAutoclosed(events[i].state)
    /\ isComplete(events[i].name)

\* The position that the attribute sub-parser returns for the tag of event i
attributesEnd(i) ==
    parseAttributes(document, attributeKind(events[i].kind), events[i].name.end).pos

\* The source has the close of a tag at the offset p, and the tag ends with it
closesAt(i, p) ==
    \/ charAt(document, p) = ">" /\ events[i].all.end = p + 1
    \/ startsWithAt(document, close_self, p) /\ events[i].all.end = p + 2

\* The last attribute of the tag of event i has an unquoted value that ends at p
unquotedValueEndsAt(i, p) ==
    /\ i > 1
    /\ events[i - 1].kind = attributeKind(events[i].kind)
    /\ events[i - 1].value.end = p
    /\ events[i - 1].value.start < p
    /\ charAt(document, events[i - 1].value.start) \notin {"\"", "'"}

\* C32, as stated: for a tag that is closed, the attribute sub-parser returns
\* a position where the source has '>' or '/>', and a '>' there is never
\* directly preceded by '/' (the position of the '/' is returned instead);
\* for a tag that is not closed it returns a position >= the source length.
C32_ReturnsClose ==
    \A i \in EventIndices :
        isWrittenTag(i) =>
            IF isComplete(events[i].all)
            THEN /\ closesAt(i, attributesEnd(i))
                 /\ charAt(document, attributesEnd(i)) = ">"
                      => charAt(document, attributesEnd(i) - 1) # "/"
            ELSE attributesEnd(i) >= length

\* C32, amended: the '>' at the returned position is directly preceded by
\* '/' only when that '/' is the end of an unquoted attribute value.
C32_ReturnsCloseOutsideValue ==
    \A i \in EventIndices :
        isWrittenTag(i) =>
            IF isComplete(events[i].all)
            THEN /\ closesAt(i, attributesEnd(i))
                 /\ (charAt(document, attributesEnd(i)) = ">"
                       /\ charAt(document, attributesEnd(i) - 1) = "/")
                      => unquotedValueEndsAt(i, attributesEnd(i))
            ELSE attributesEnd(i) >= length

\* An end tag with an attribute and then '/>': the position of the '/' is returned
C32_Witness ==
    /\ Done
    /\ \E i \in EventIndices :
         /\ isWrittenTag(i)
         /\ events[i].kind = "EndTag"
         /\ events[i - 1].kind = "EndTagAttribute"
         /\ startsWithAt(document, close_self, attributesEnd(i))
         /\ events[i].all.end = attributesEnd(i) + 2

----------------------------------------------------------------------------
\* The attribute event k has a value that is written without quotes
isUnquoted(k) ==
    /\ equalsOf(k) # NPOS
    /\ events[k].value.start = valueOf(k)
    /\ events[k].value.start < endOr(events[k].value)
    /\ charAt(document, events[k].value.start) \notin {"\"", "'"}

\* The offsets of a range of the source
offsets(r) == r.start..(endOr(r) - 1)

\* C33: in the attributes of a tag a '/' between attributes or after a name
\* is a separator: no name holds a '/', the '/' after a name ends the name
\* and what follows it is the next attribute; a '/' in an unquoted value is
\* part of the value, which ends only at a space, at '>' or with the source.
C33_SlashSeparates ==
    \A k \in EventIndices :
        isAttributeEvent(k) =>
            /\ \A q \in offsets(events[k].name) : charAt(document, q) # "/"
            /\ \A q \in offsets(events[k].all) :
                   charAt(document, q) = "/" => q \in offsets(events[k].value)
            /\ LET next == findFirstNotOf(document, attribute_spaces, events[k].name.end)
               IN  (/\ isComplete(events[k].name)
                    /\ charAt(document, events[k].name.end) = "/"
                    /\ next # NPOS
                    /\ charAt(document, next) # ">") =>
                       /\ events[k + 1].kind = events[k].kind
                       /\ events[k + 1].name.start = next
                       /\ events[k].all = events[k].name
            /\ isUnquoted(k) =>
                   /\ \A q \in offsets(events[k].value) :
                          charAt(document, q) \notin attribute_value_end
                   /\ isComplete(events[k].value) =>
                          charAt(document, events[k].value.end) \in attribute_value_end

\* a/a gives two attributes, the names on either side of the slash
C33_Witness ==
    /\ Done
    /\ \E k \in EventIndices :
         /\ isAttributeEvent(k)
         /\ isAttributeEvent(k + 1)
         /\ charAt(document, events[k].name.end) = "/"
         /\ events[k + 1].name.start = events[k].name.end + 1
         /\ events[k].name.end = events[k].name.start + 1

----------------------------------------------------------------------------
\* The attribute event k has a name that ends in the source and no '=' after it
isValueless(k) ==
    /\ isComplete(events[k].name)
    /\ equalsOf(k) = NPOS

\* The offset of the quote that closes the quoted value of the attribute
\* event k, NPOS if the value is not quoted or the quote is not closed
closingQuote(k) ==
    IF /\ isComplete(events[k].name)
       /\ equalsOf(k) # NPOS
       /\ valueOf(k) # NPOS
       /\ charAt(document, valueOf(k)) \in {"\"", "'"}
    THEN find(document, <<charAt(document, valueOf(k))>>, valueOf(k) + 1)
    ELSE NPOS

----------------------------------------------------------------------------
\* C35: every synthesized end tag has the same empty range as its name and as
\* its all: at the offset of the '<' of the tag that triggers a sibling sweep
\* or an end-tag sweep, at the final search position for the end of input; it
\* covers no character of the source.
C35_Step ==
    pc = "loop" =>
        \A n \in DOMAIN newEvents :
            isSynthesized(newEvents[n]) =>
                LET at == IF pc' = "done" THEN search_position' ELSE nextOpen
                IN  /\ newEvents[n].all = Range(at, at)
                    /\ newEvents[n].name = Range(at, at)
                    /\ newEvents[n].all.start = newEvents[n].all.end
                    /\ getText(document, newEvents[n].all) = <<>>
                    /\ pc' # "done" =>
                         /\ lastEvent.kind \in {"StartTag", "EndTag"}
                         /\ ~isAutoclosed(lastEvent.state)
                         /\ lastEvent.all.start = at

C35_SynthesizedEmpty == [][C35_Step]_vars

\* An end tag closed an open child with a synthesized end tag at its own '<'
C35_Witness ==
    /\ Done
    /\ \E i \in EventIndices :
         /\ events[i].kind = "EndTag"
         /\ events[i].state \in {autoclosedByParent, autoclosedByAncestor}
         /\ events[i + 1].kind = "EndTagPrefix"
         /\ ~isAutoclosed(events[i + 1].state)
         /\ events[i].all = Range(events[i + 1].all.start, events[i + 1].all.start)
         /\ events[i].all.start > 0
         /\ events[i].name = events[i].all

----------------------------------------------------------------------------
\* The step is at an end tag whose name the end of the source cuts
AtTruncatedEndTag ==
    /\ AtToken(open_end_tag)
    /\ findFirstOf(document, element_name_end, nextOpen + Len(open_end_tag)) = NPOS

\* C36: an end tag whose name is cut by the end of the source is reported
\* with the tagID UnknownTagID, not with the id of the part of the name that
\* is there, and with an incomplete name range; it closes nothing.
C36_Step ==
    AtTruncatedEndTag =>
        /\ Len(events') > Len(events)
        /\ lastEvent.kind = "EndTag"
        /\ lastEvent.tagID = UnknownTagID
        /\ lastEvent.tagID # getTagID(getText(document, lastEvent.name))
        /\ ~isComplete(lastEvent.name)
        /\ lastEvent.name.start \in {nextOpen + Len(open_end_tag), NPOS}
        /\ lastEvent.name.start = NPOS <=> nextOpen + Len(open_end_tag) >= length
        /\ ~isComplete(lastEvent.all)
        /\ lastEvent.state = unmatched
        /\ elements' = elements

C36_TruncatedEndTagUnknown == [][C36_Step]_vars

\* <a></a: the end tag is cut after its name a, and the element a stays open
C36_Witness ==
    /\ Done
    /\ \E i \in EventIndices :
         /\ events[i].kind = "EndTag"
         /\ events[i].tagID = UnknownTagID
         /\ ~isComplete(events[i].name)
         /\ getText(document, events[i].name) = <<"a">>
         /\ EOFList = <<ida>>

\* ---------------------------------------------------------------------
\* LandmarksRange on its own: the constructor with arguments of any sign
\* and order, then the getters on the object it built
\* ---------------------------------------------------------------------

MaxPosition == 6

\* The arguments given to the constructor; NPOS is the default of both
Positions == (-2..MaxPosition) \cup {NPOS}

RangeInit ==
    /\ policy = PlainPolicy
    /\ document = <<>>
    /\ start_position = 0
    /\ search_position = 0
    /\ elements = <<>>
    /\ events = <<>>
    /\ pc = "ready"

\* new LandmarksRange(s, e): throws, or assigns this.start and this.end.
\* The call is kept in events with its arguments in either case
Construct ==
    /\ pc = "ready"
    /\ \E s \in Positions, e \in Positions :
          /\ events' = <<New(s, e)>>
          /\ pc' = IF RangeThrows(s, e) THEN "threw" ELSE "constructed"
    /\ UNCHANGED <<document, policy, start_position, search_position, elements>>

\* isComplete, isEmpty and getText(document) are read: the fields are
\* readonly and no member assigns them
UseRange ==
    /\ pc = "constructed"
    /\ isComplete(events[1].all) \in BOOLEAN
    /\ isEmpty(events[1].all) \in BOOLEAN
    /\ Len(getText(document, events[1].all)) >= 0
    /\ pc' = "used"
    /\ UNCHANGED <<document, policy, start_position, search_position, elements, events>>

RangeNext ==
    \/ Construct
    \/ UseRange

RangeSpec == RangeInit /\ [][RangeNext]_vars

\* C37: the constructor throws exactly when start < 0 or end < start and
\* the outcome depends on the arguments only; a range that was constructed
\* has 0 <= start <= end, and reading it never changes it
C37_Step ==
    /\ pc = "ready" =>
          LET r == events'[1].all
          IN  /\ Len(events') = 1
              /\ pc' \in {"threw", "constructed"}
              /\ (pc' = "threw") <=> ((r.start < 0) \/ (r.end < r.start))
              /\ (pc' = "constructed") => (0 <= r.start /\ r.start <= r.end)
    /\ pc \in {"constructed", "used"} =>
          /\ events' = events
          /\ pc' # "threw"

C37_RangeConstructor == [][C37_Step]_vars

\* A range whose end is before its start was refused
C37_Witness ==
    /\ pc = "threw"
    /\ events[1].all.start >= 0
    /\ events[1].all.end < events[1].all.start

\* ---------------------------------------------------------------------
\* parse() called again on the same parser: the closure keeps document,
\* policy and handler; the anchor, the search position and the stack are
\* locals of the call
\* ---------------------------------------------------------------------

isEOF(e) == e.kind = "EOF"

\* The number of calls of parse() that have returned
returned == Len(SelectSeq(events, isEOF))

\* A second call that goes on with the stack of the first
ParseAgainKeepsStack ==
    /\ pc = "done"
    /\ returned = 1
    /\ start_position' = 0
    /\ search_position' = 0
    /\ pc' = "loop"
    /\ UNCHANGED <<document, policy, elements, events>>

\* parse() is called a second time, after the first call has returned: the
\* same handler goes on receiving the events
ParseAgain ==
    /\ pc = "done"
    /\ returned = 1
    /\ start_position' = 0
    /\ search_position' = 0
    /\ elements' = <<>>
    /\ pc' = "loop"
    /\ UNCHANGED <<document, policy, events>>

NextOrAgain ==
    \/ Next
    \/ ParseAgain

TwiceSpec == Init /\ [][NextOrAgain]_vars

\* The events of the first call: up to the first EOF, all of them before it
firstCall ==
    LET eofs == {i \in EventIndices : events[i].kind = "EOF"}
    IN  IF eofs = {} THEN events ELSE SubSeq(events, 1, Min(eofs))

\* The events of the second call so far
secondCall == SubSeq(events, Len(firstCall) + 1, Len(events))

\* C38: a second call of parse() on the same parser starts from an empty
\* stack, with the anchor and the search position at 0, and delivers the
\* events of the first call again: at every point what it has delivered is
\* the beginning of what the first call delivered, and when it returns it
\* has delivered all of it.
C38_Step ==
    /\ (pc = "done" /\ pc' = "loop") =>
          /\ elements' = <<>>
          /\ start_position' = 0
          /\ search_position' = 0
          /\ events' = events
          /\ document' = document /\ policy' = policy
    /\ Len(secondCall') <= Len(firstCall')
    /\ secondCall' = SubSeq(firstCall', 1, Len(secondCall'))
    /\ (pc' = "done" /\ returned' = 2) => secondCall' = firstCall'

----------------------------------------------------------------------------
\* C39: after every step the depth of the stack of open elements is the
\* number of StartTag events delivered so far with a complete name that are
\* not self-closing, minus the number of EndTag events delivered so far whose
\* state is not unmatched; a step that delivers no StartTag and no EndTag
\* event (Text, comment, CDATA, processing instruction, declaration, prefix
\* and attribute events only) leaves the stack as it was.
pushes(evs) ==
    Cardinality({i \in DOMAIN evs :
                    /\ evs[i].kind = "StartTag"
                    /\ isComplete(evs[i].name)
                    /\ ~saysSelfClosing(evs[i])})

pops(evs) ==
    Cardinality({i \in DOMAIN evs : evs[i].kind = "EndTag" /\ evs[i].state # unmatched})

C39_Step ==
    /\ Len(elements') = pushes(events') - pops(events')
    /\ (\A i \in DOMAIN newEvents : newEvents[i].kind \notin {"StartTag", "EndTag"}) =>
          elements' = elements

----------------------------------------------------------------------------
\* C40: the anchor never exceeds the search position, and every Text event
\* has start < end: a step delivers at most one Text event, as its first
\* event, over the range from the anchor to the search head of the step (the
\* next '<', or where the search ended), and only when the two differ.

\* The search head where the step looks for text: the next '<' (npos when
\* there is none), or the search position when it is past the source
searchHead == IF search_position < length THEN nextOpen ELSE search_position

C40_Step ==
    /\ start_position' <= search_position'
    /\ \A i \in DOMAIN newEvents :
          newEvents[i].kind = "Text" =>
            /\ i = 1
            /\ pc = "loop"
            /\ start_position # searchHead
            /\ newEvents[i].all = Range(start_position, searchHead)
            /\ newEvents[i].all.start < newEvents[i].all.end

C40_TextNotEmpty == [][C40_Step]_vars

\* A finished parse with a Text event, then two start tags with nothing
\* between them and no Text event for the empty range there
C40_Witness ==
    /\ Done
    /\ \E i \in EventIndices :
         /\ events[i].kind = "Text"
         /\ isComplete(events[i].all)
         /\ i + 4 \in EventIndices
         /\ events[i + 1].kind = "StartTagPrefix"
         /\ events[i + 2].kind = "StartTag"
         /\ events[i + 3].kind = "StartTagPrefix"
         /\ events[i + 3].all.start = events[i + 2].all.end

====
